---- MODULE Spec2Model ----
(***************************************************************************)
(* The force-directed collage ("Collage du Monde" / "Nos rookies") of      *)
(* src/app/routes/home/partials/FullScreenCarousel.tsx, as a state machine.*)
(*                                                                         *)
(* Units: lengths are whole pixels, alpha and eased time are per-mille     *)
(* (1000 = 1.0), force strengths are per-mille.  Quotients truncate        *)
(* toward zero.  An undefined field of a node (originalR, groupId, ...)    *)
(* is 0 for a number (the code tests it with `!d.originalR` / `||`),       *)
(* "undefined" for a string and <<>> for fx / fy.                          *)
(***************************************************************************)
EXTENDS Integers, Sequences, FiniteSets, TLC

VARIABLES
  groups,    \* useGroups().groups: the catalog, fixed for the page's life
  filter,    \* useState<FilterType>("tous")
  mounted,   \* the component is mounted (its effect has not been torn down)
  svg,       \* svgRef.current is set: the renderer has attached the <svg>
  gens,      \* every node set built so far with its simulation; the last is live
  timers,    \* d3-timer's list, in creation order: simulations and transitions
  hovered,   \* the live node the pointer is inside (0: none)
  route,     \* the path last passed to navigate() (<<>>: none yet)
  nEvents,   \* pointer events so far
  nFrames,   \* animation frames so far
  hist,      \* history: what the claims compare the present state with
  search,    \* the search bar (Navigation, SearchBar, useSearch)
  slideshow, \* the full-screen slideshow (FullScreenCarousel)
  carousel,  \* the album carousel (BranchesMarginales/Carousel)
  pile       \* the album pile (useAlbumSelection)

collage == <<groups, filter, mounted, svg, gens, timers, hovered, route, nEvents, nFrames,
             hist>>

widgets == <<search, slideshow, carousel, pile>>

vars == <<groups, filter, mounted, svg, gens, timers, hovered, route, nEvents, nFrames,
          hist, search, slideshow, carousel, pile>>

----------------------------------------------------------------------------
\* Bounds of the exploration.
MaxRebuilds == 1
MaxFrames == 2
MaxEvents == 1
MaxStray == 1
HoverFrames == 4
HoverEvents == 4
MaxFilterChanges == 3
FramesPerTween == 2
MaxItems == 5
MaxQuery == 2
MaxSlides == 4
MaxPending == 2
MaxAlbums == 8
MaxPile == 4
RenderFrames == 3
RenderEvents == 1
MountRebuilds == 0
MountFrames == 2
MountEvents == 1
SettleFrames == 150
SettledAfter == 146
SettleEvents == 1

----------------------------------------------------------------------------
\* SIMULATION_CONFIG and the animation constants.
ANIMATION_DURATION == 500
ENTRANCE_ANIMATION_DELAY == 100
ENTRANCE_ANIMATION_DURATION == 800
OPACITY_ANIMATION_DURATION == 300
SizeAlbum == 50
SizeArtist == 60
SizeTitle == 200
SizeHover == 70
MaxDelta == 20
MinAlbum == 20
MinArtist == 25
HolePadding == 2
ClipPadding == 2
ForceCharge == 0
ForceCollide == 1
ForceCenterPm == 5
ForceXPm == 2
ForceYPm == 20
CenterHoleRadius == 0
CenterHoleStrengthPm == 20
Width == 1280
Height == 960
AlphaDecayPtt == 228
VelocityDecayPm == 100
AlphaTargetPm == 300
CollisionIterations == 3
RestartAlphaPm == 100
\* forceSimulation's alphaMin, left at the engine's value (0.001).
AlphaMinPm == 1

Filters == {"tous", "album", "artist"}

----------------------------------------------------------------------------
\* Arithmetic helpers.
Quot(a, b) == IF a >= 0 THEN a \div b ELSE -((-a) \div b)

Max2(a, b) == IF a >= b THEN a ELSE b

Min2(a, b) == IF a <= b THEN a ELSE b

\* The sequence f as an explicit tuple (the same value, evaluated once).
Tuple(f) == SubSeq(f, 1, Len(f))

RECURSIVE SqrtSearch(_, _, _)
SqrtSearch(n, lo, hi) ==
  IF lo >= hi THEN lo
  ELSE LET mid == (lo + hi + 1) \div 2
       IN IF mid * mid <= n THEN SqrtSearch(n, mid, hi)
          ELSE SqrtSearch(n, lo, mid - 1)

\* floor(sqrt(n)) for 0 <= n < 2^30
Isqrt(n) == SqrtSearch(n, 0, 32767)

----------------------------------------------------------------------------
\* The catalog (GroupContext): groups with their albums.
Album(id, src) == [id |-> id, src |-> src]

Group(id, name, albums) == [id |-> id, name |-> name, albums |-> albums]

\* The scenario of the specification: A has two albums, B has one.
CatalogAB ==
  << Group("A", "Alpha", <<Album(1, "a1.jpg"), Album(2, "a2.jpg")>>),
     Group("B", "Beta", <<Album(3, "b3.jpg")>>) >>

\* Album ids unique within their own group only.
CatalogSameAlbumId ==
  << Group("A", "Alpha", <<Album(1, "a1.jpg")>>),
     Group("B", "Beta", <<Album(1, "b1.jpg")>>) >>

\* A group without albums, between two groups that have one.
CatalogEmptyGroup ==
  << Group("A", "Alpha", <<Album(1, "a1.jpg")>>),
     Group("B", "Beta", <<>>),
     Group("C", "Gamma", <<Album(2, "c2.jpg")>>) >>

\* Four groups, one album in all.
CatalogFour ==
  << Group("A", "Alpha", <<Album(1, "a1.jpg")>>),
     Group("B", "Beta", <<>>),
     Group("C", "Gamma", <<>>),
     Group("D", "Delta", <<>>) >>

Catalogs == {CatalogAB, CatalogSameAlbumId, CatalogEmptyGroup, CatalogFour}

\* album.id.toString() / `${album.id}`
NumStr(n) == CASE n = 1 -> "1" [] n = 2 -> "2" [] n = 3 -> "3" [] OTHER -> "?"

----------------------------------------------------------------------------
\* Node model.  A node is a record holding the fields the object has; a
\* field the object lacks (x of a new album node, originalR before the first
\* hover, fx of a free node) is absent from the record's domain.
Has(d, f) == f \in DOMAIN d

With(d, f, v) == [k \in DOMAIN d \cup {f} |-> IF k = f THEN v ELSE d[k]]

\* Math.random() in [0, 1), per-mille: the least, the middle and the greatest draw.
RandomDraws == {0, 500, 999}

\* Mutant of RandomDelta: the draw is not centred.
RandomDeltaUncentred(u) == Quot(u * 2 * MaxDelta, 1000)

\* (Math.random() - 0.5) * 2 * SIMULATION_CONFIG.nodeSize.maxDelta
RandomDelta(u) == Quot((u - 500) * 2 * MaxDelta, 1000)

createTitleNode ==
  [id |-> <<"title-center", "">>, src |-> "", type |-> "title",
   groupName |-> "Nous ne sommes qu'un", r |-> SizeTitle, group |-> "center",
   x |-> Width \div 2, y |-> Height \div 2,
   fx |-> Width \div 2, fy |-> Height \div 2]

createAlbumNode(album, group, u) ==
  [id |-> <<"album-", NumStr(album.id)>>, src |-> album.src, type |-> "album",
   groupName |-> group.name, groupId |-> group.id,
   albumId |-> NumStr(album.id),
   r |-> Max2(MinAlbum, SizeAlbum + RandomDelta(u)), group |-> group.id]

\* What stands for a value whose evaluation throws: group.albums[0].src of a
\* group without albums.
TypeError == "TypeError"

createArtistNode(group, u) ==
  [id |-> <<"artist-", group.id>>,
   src |-> IF Len(group.albums) > 0 THEN group.albums[1].src ELSE TypeError,
   type |-> "artist",
   groupName |-> group.name, groupId |-> group.id,
   r |-> Max2(MinArtist, SizeArtist + RandomDelta(u)), group |-> group.id]

\* Mutant of GroupItems: the artist is pushed before the albums.
GroupItemsArtistFirst(group, f) ==
  (IF (f = "tous" \/ f = "artist") /\ Len(group.albums) > 0
     THEN <<[kind |-> "artist", group |-> group]>>
     ELSE <<>>)
  \o
  (IF f = "tous" \/ f = "album"
     THEN [a \in 1..Len(group.albums) |->
             [kind |-> "album", album |-> group.albums[a], group |-> group]]
     ELSE <<>>)

\* Mutant of GroupItems: the artist is pushed whatever the group holds.
GroupItemsUnguarded(group, f) ==
  (IF f = "tous" \/ f = "album"
     THEN [a \in 1..Len(group.albums) |->
             [kind |-> "album", album |-> group.albums[a], group |-> group]]
     ELSE <<>>)
  \o
  (IF f = "tous" \/ f = "artist"
     THEN <<[kind |-> "artist", group |-> group]>>
     ELSE <<>>)

\* What one group pushes onto `items`: its albums, then its artist.
GroupItems(group, f) ==
  (IF f = "tous" \/ f = "album"
     THEN [a \in 1..Len(group.albums) |->
             [kind |-> "album", album |-> group.albums[a], group |-> group]]
     ELSE <<>>)
  \o
  (IF (f = "tous" \/ f = "artist") /\ Len(group.albums) > 0
     THEN <<[kind |-> "artist", group |-> group]>>
     ELSE <<>>)

RECURSIVE CatalogItems(_, _, _)
CatalogItems(gs, f, i) ==
  IF i > Len(gs) THEN <<>>
  ELSE GroupItems(gs[i], f) \o CatalogItems(gs, f, i + 1)

\* The `data` useMemo: the title, then every group's nodes in catalog order.
\* u[k] is the Math.random() draw of the k-th node created after the title.
DataMemo(gs, f, u) ==
  LET items == CatalogItems(gs, f, 1)
  IN <<createTitleNode>> \o
     [k \in 1..Len(items) |->
        IF items[k].kind = "album"
          THEN createAlbumNode(items[k].album, items[k].group, u[k])
          ELSE createArtistNode(items[k].group, u[k])]

----------------------------------------------------------------------------
\* Cluster targets.  Math.cos / Math.sin of (i / numGroups) * 2 * Math.PI,
\* per-mille, for the angles one to four groups give (in degrees).
CosPm(deg) ==
  CASE deg = 0 -> 1000 [] deg = 90 -> 0 [] deg = 120 -> -500
    [] deg = 180 -> -1000 [] deg = 240 -> -500 [] deg = 270 -> 0

SinPm(deg) ==
  CASE deg = 0 -> 0 [] deg = 90 -> 1000 [] deg = 120 -> 866
    [] deg = 180 -> 0 [] deg = 240 -> -866 [] deg = 270 -> -1000

ClusterPoint(i, numGroups, width, height) ==
  LET angle == (360 * (i - 1)) \div numGroups
      radius == Min2(width, height) \div 4
  IN [x |-> width \div 2 + Quot(CosPm(angle) * radius, 1000),
      y |-> height \div 2 + Quot(SinPm(angle) * radius, 1000)]

\* Mutant of createClusters: targets for the groups that have albums only.
createClustersVisible(gs, width, height) ==
  LET shown == SelectSeq(gs, LAMBDA g : Len(g.albums) > 0)
  IN [gid \in {shown[i].id : i \in 1..Len(shown)} |->
        LET last == CHOOSE i \in 1..Len(shown) :
                      shown[i].id = gid
                      /\ \A j \in (i + 1)..Len(shown) : shown[j].id # gid
        IN ClusterPoint(last, Len(shown), width, height)]

\* createClusters: a Map from group.id to its point; a later group with the
\* same id overwrites an earlier one.
createClusters(gs, width, height) ==
  [gid \in {gs[i].id : i \in 1..Len(gs)} |->
     LET last == CHOOSE i \in 1..Len(gs) :
                   gs[i].id = gid /\ \A j \in (i + 1)..Len(gs) : gs[j].id # gid
     IN ClusterPoint(last, Len(gs), width, height)]

\* The targets of forceX / forceY: the node's cluster, else the canvas center.
ClusterTargetX(clusters, d) ==
  IF d.group \in DOMAIN clusters THEN clusters[d.group].x ELSE Width \div 2

ClusterTargetY(clusters, d) ==
  IF d.group \in DOMAIN clusters THEN clusters[d.group].y ELSE Height \div 2

----------------------------------------------------------------------------
\* d3-force: forceSimulation(data) initialises every node (initializeNodes):
\* a node without a position is placed on the phyllotaxis spiral by its index
\* (0-based i: radius 10 * sqrt(0.5 + i), angle i * pi * (3 - sqrt 5)),
\* rounded to pixels; a node without a velocity gets velocity 0.
SpiralX(i) ==
  CASE i = 0 -> 7 [] i = 1 -> -9 [] i = 2 -> 1 [] i = 3 -> 11
    [] i = 4 -> -21 [] i = 5 -> 20 [] i = 6 -> -7 [] OTHER -> -13

SpiralY(i) ==
  CASE i = 0 -> 0 [] i = 1 -> 8 [] i = 2 -> -16 [] i = 3 -> 15
    [] i = 4 -> -4 [] i = 5 -> -13 [] i = 6 -> 25 [] OTHER -> -24

initializeNode(d, i) ==
  LET p == IF Has(d, "fx") THEN With(With(d, "x", d.fx), "y", d.fy) ELSE d
      q == IF Has(p, "x") /\ Has(p, "y") THEN p
           ELSE With(With(p, "x", SpiralX(i - 1)), "y", SpiralY(i - 1))
  IN IF Has(q, "vx") /\ Has(q, "vy") THEN q
     ELSE With(With(q, "vx", 0), "vy", 0)

initializeNodes(data) == Tuple([i \in 1..Len(data) |-> initializeNode(data[i], i)])

\* forceCollide().radius(d => d.r + holePadding): added to a simulation, the
\* force evaluates the accessor once per node and keeps the results.
CollideRadii(nodes) == Tuple([i \in 1..Len(nodes) |-> nodes[i].r + HolePadding])

\* The svg's elements.  Only the attributes that place and size a node are
\* kept: a <g>'s transform (<<>> while it has none), the r of its circles,
\* the box of its image, the r of the circle of its clipPath.  Styles (fill,
\* stroke, filter, opacity, cursor, font-size) are left out.

\* `clip-${d.id}`
ClipId(d) == <<"clip-">> \o d.id

\* createClipPaths: one clipPath per node, in the order of `data`.
createClipPaths(data) ==
  Tuple([i \in 1..Len(data) |-> [id |-> ClipId(data[i]), r |-> 0]])

Circle(class) == [class |-> class, r |-> 0]

Image == [x |-> 0, y |-> 0, width |-> 0, height |-> 0]

createAlbumElements == [circles |-> <<Circle("outer"), Circle("hole")>>, image |-> <<Image>>]

createArtistElements == [circles |-> <<Circle("outer")>>, image |-> <<Image>>]

createTitleElements == [circles |-> <<Circle("")>>, image |-> <<>>]

\* svg.selectAll(".node").data(data).enter().append("g"), then the elements
\* of the node's type.
NodeGroup(data) ==
  Tuple([i \in 1..Len(data) |->
     LET inner == CASE data[i].type = "album" -> createAlbumElements
                    [] data[i].type = "artist" -> createArtistElements
                    [] OTHER -> createTitleElements
     IN [transform |-> <<>>, circles |-> inner.circles, image |-> inner.image]])

\* The effect's body: the simulation over `data`, started, alpha 1, and the
\* elements it draws into.  `atTick` is what the last tick left: the nodes
\* as the step left them, the collision radii the step used and the elements
\* as the callback wrote them (<<>> before the first tick).
NewSimulation(gs, data) ==
  LET nodes == initializeNodes(data)
  IN [nodes |-> nodes,
      clusters |-> createClusters(gs, Width, Height),
      radii |-> CollideRadii(nodes),
      alpha |-> 1000,
      running |-> TRUE,
      ticks |-> 0,
      nodeGroup |-> NodeGroup(data),
      defs |-> createClipPaths(data),
      atTick |-> <<>>]

----------------------------------------------------------------------------
\* One tick of the simulation (d3-force), force by force in the order the
\* effect registers them: center, x, y, collide, charge, radial.

\* Mutant of AlphaStep: no alphaTarget set, alpha decays towards 0.
AlphaStepNoTarget(alpha) == alpha + Quot((0 - alpha) * AlphaDecayPtt, 10000)

\* alpha += (alphaTarget - alpha) * alphaDecay
AlphaStep(alpha) == alpha + Quot((AlphaTargetPm - alpha) * AlphaDecayPtt, 10000)

RECURSIVE SumOf(_, _, _)
SumOf(nodes, f, i) ==
  IF i > Len(nodes) THEN 0 ELSE nodes[i][f] + SumOf(nodes, f, i + 1)

\* forceCenter(width / 2, height / 2).strength(center): shifts every node.
ForceCenter(nodes) ==
  LET n == Len(nodes)
      sx == Quot((Quot(SumOf(nodes, "x", 1), n) - Width \div 2) * ForceCenterPm, 1000)
      sy == Quot((Quot(SumOf(nodes, "y", 1), n) - Height \div 2) * ForceCenterPm, 1000)
  IN Tuple([i \in 1..n |-> [nodes[i] EXCEPT !.x = @ - sx, !.y = @ - sy]])

\* forceX / forceY toward the node's cluster target.
ForceXY(nodes, clusters, alpha) ==
  Tuple([i \in 1..Len(nodes) |->
     [nodes[i] EXCEPT
        !.vx = @ + Quot((ClusterTargetX(clusters, nodes[i]) - nodes[i].x)
                          * ForceXPm * alpha, 1000000),
        !.vy = @ + Quot((ClusterTargetY(clusters, nodes[i]) - nodes[i].y)
                          * ForceYPm * alpha, 1000000)]])

\* forceCollide: node i against a later node j, at their anticipated
\* positions; xi, yi are node i's, taken before its visit.  Two nodes at the
\* same point are pushed apart along x (d3 jiggles them at random).
CollidePair(nodes, radii, i, j, xi, yi) ==
  LET dx == xi - nodes[j].x - nodes[j].vx
      dy == yi - nodes[j].y - nodes[j].vy
      l2 == dx * dx + dy * dy
      r == radii[i] + radii[j]
  IN IF l2 >= r * r THEN nodes
     ELSE LET l == Max2(1, Isqrt(l2))
              x == IF l2 = 0 THEN 1 ELSE dx
              px == Quot(x * (r - l) * ForceCollide, l)
              py == Quot(dy * (r - l) * ForceCollide, l)
              w == Quot(radii[j] * radii[j] * 1000,
                        radii[i] * radii[i] + radii[j] * radii[j])
          IN [nodes EXCEPT
                ![i].vx = @ + Quot(px * w, 1000),
                ![i].vy = @ + Quot(py * w, 1000),
                ![j].vx = @ - Quot(px * (1000 - w), 1000),
                ![j].vy = @ - Quot(py * (1000 - w), 1000)]

RECURSIVE CollideVisit(_, _, _, _, _, _)
CollideVisit(nodes, radii, i, j, xi, yi) ==
  IF j > Len(nodes) THEN nodes
  ELSE CollideVisit(CollidePair(nodes, radii, i, j, xi, yi), radii, i, j + 1, xi, yi)

RECURSIVE CollideNodes(_, _, _)
CollideNodes(nodes, radii, i) ==
  IF i > Len(nodes) THEN nodes
  ELSE CollideNodes(
         CollideVisit(nodes, radii, i, i + 1,
                      nodes[i].x + nodes[i].vx, nodes[i].y + nodes[i].vy),
         radii, i + 1)

RECURSIVE ForceCollideApply(_, _, _)
ForceCollideApply(nodes, radii, k) ==
  IF k > CollisionIterations THEN nodes
  ELSE ForceCollideApply(CollideNodes(nodes, radii, 1), radii, k + 1)

\* forceManyBody().strength(charge): every contribution is scaled by charge.
ForceManyBody(nodes) ==
  Tuple([i \in 1..Len(nodes) |->
     [nodes[i] EXCEPT !.vx = @ + ForceCharge * (Len(nodes) - 1),
                      !.vy = @ + ForceCharge * (Len(nodes) - 1)]])

\* forceRadial(centerHole.radius, width / 2, height / 2).strength(...)
ForceRadial(nodes, alpha) ==
  Tuple([i \in 1..Len(nodes) |->
     LET dx == nodes[i].x - Width \div 2
         dy == nodes[i].y - Height \div 2
         r == Isqrt(dx * dx + dy * dy)
         k == IF r = 0 THEN 0
              ELSE Quot((CenterHoleRadius - r) * CenterHoleStrengthPm * alpha, r * 1000)
     IN [nodes[i] EXCEPT !.vx = @ + Quot(dx * k, 1000),
                         !.vy = @ + Quot(dy * k, 1000)]])

\* Mutant of MoveNode: fx / fy are ignored.
MoveNodeUnpinned(d) ==
  LET vx == Quot(d.vx * (1000 - VelocityDecayPm), 1000)
      vy == Quot(d.vy * (1000 - VelocityDecayPm), 1000)
  IN [d EXCEPT !.x = @ + vx, !.y = @ + vy, !.vx = vx, !.vy = vy]

\* After the forces: a free node moves by its decayed velocity, a pinned
\* node is put back on (fx, fy) with velocity 0.
\* Mutant of MoveNode: the tick also writes the radius.
MoveNodeGrows(d) ==
  IF Has(d, "fx")
    THEN [d EXCEPT !.x = d.fx, !.y = d.fy, !.vx = 0, !.vy = 0, !.r = @ + 1]
    ELSE [MoveNodeUnpinned(d) EXCEPT !.r = @ + 1]

MoveNode(d) ==
  LET vx == Quot(d.vx * (1000 - VelocityDecayPm), 1000)
      vy == Quot(d.vy * (1000 - VelocityDecayPm), 1000)
  IN IF Has(d, "fx")
       THEN [d EXCEPT !.x = d.fx, !.y = d.fy, !.vx = 0, !.vy = 0]
       ELSE [d EXCEPT !.x = @ + vx, !.y = @ + vy, !.vx = vx, !.vy = vy]

SimulationTick(sim) ==
  LET alpha == AlphaStep(sim.alpha)
      n1 == ForceCenter(sim.nodes)
      n2 == ForceXY(n1, sim.clusters, alpha)
      n3 == ForceCollideApply(n2, sim.radii, 1)
      n4 == ForceManyBody(n3)
      n5 == ForceRadial(n4, alpha)
  IN [sim EXCEPT !.alpha = alpha,
                 !.nodes = Tuple([i \in 1..Len(n5) |-> MoveNode(n5[i])]),
                 !.ticks = @ + 1]

----------------------------------------------------------------------------
\* Hover / leave transitions (d3-transition, d3-ease, d3-interpolate).

\* d3.easeCircle (easeCircleInOut) at k / n of the duration, per-mille.
EaseCircle(k, n) ==
  LET t2 == Quot(2000 * k, n)
  IN IF t2 <= 1000
       THEN Quot(1000 - Isqrt(1000000 - t2 * t2), 2)
       ELSE Quot(Isqrt(1000000 - (t2 - 2000) * (t2 - 2000)) + 1000, 2)

\* Mutant of Interpolate: a + b * t.
InterpolateAdds(a, b, t) == Quot(a * 1000 + b * t, 1000)

\* interpolate(a, b)(t) = a * (1 - t) + b * t
Interpolate(a, b, t) == Quot(a * (1000 - t) + b * t, 1000)

\* Mutant of updateCollisionForce: the force in place is kept.
updateCollisionForceKeeps(sim) == sim

\* updateCollisionForce: a new collide force, which evaluates the radius
\* accessor on every node as it is now.
updateCollisionForce(sim) == [sim EXCEPT !.radii = CollideRadii(sim.nodes)]

\* Mutant of restartSimulationIfNeeded: restarts whatever alpha is.
restartSimulationAlways(sim) ==
  [sim EXCEPT !.alpha = Max2(@, RestartAlphaPm), !.running = TRUE]

\* restartSimulationIfNeeded
restartSimulationIfNeeded(sim) ==
  IF sim.alpha < RestartAlphaPm
    THEN [sim EXCEPT !.alpha = RestartAlphaPm, !.running = TRUE]
    ELSE sim

\* The tween's frame function: d.r = tween(t), then the two calls.
\* Mutant of TweenWrite: the collision force is reassigned before the radius
\* is written.
TweenWriteForceFirst(sim, n, v) ==
  [restartSimulationIfNeeded(updateCollisionForce(sim)) EXCEPT !.nodes[n].r = v]

TweenWrite(sim, n, v) ==
  restartSimulationIfNeeded(
    updateCollisionForce([sim EXCEPT !.nodes[n].r = v]))

\* handleNodeHover on node d: records originalR, returns the node.
HoverNode(d) ==
  IF ~Has(d, "originalR") \/ d.originalR = 0 THEN With(d, "originalR", d.r) ELSE d

HoverTarget(d) == SizeHover

\* Mutant of LeaveTarget: always the base size of the node's type.
LeaveTargetBase(d) == IF d.type = "album" THEN SizeAlbum ELSE SizeArtist

\* handleNodeLeave's targetSize
LeaveTarget(d) ==
  IF Has(d, "originalR") /\ d.originalR # 0 THEN d.originalR
  ELSE IF d.type = "album" THEN SizeAlbum ELSE SizeArtist

\* A transition on node n of generation g, as scheduled by a handler:
\* k = -1 until its first frame, then the frames it has run.
\* Mutant of Transition: the interpolation starts from the radius the node
\* was built with.
TransitionFromResting(g, n, from, to) ==
  [kind |-> "tween", g |-> g, n |-> n, from |-> hist.assigned[g][n], to |-> to,
   k |-> -1]

Transition(g, n, from, to) ==
  [kind |-> "tween", g |-> g, n |-> n, from |-> from, to |-> to, k |-> -1]

SimTimer(g) == [kind |-> "sim", g |-> g]

----------------------------------------------------------------------------
\* The tick callback: updateVisualsOnTick(nodeGroup, defs, data).

\* clipId.replace("clip-", ""): the first occurrence is removed.
StripClip(clipId) ==
  LET at == {i \in 1..Len(clipId) : clipId[i] = "clip-"}
  IN IF at = {} THEN clipId
     ELSE LET first == CHOOSE i \in at : \A j \in at : i <= j
          IN SubSeq(clipId, 1, first - 1) \o SubSeq(clipId, first + 1, Len(clipId))

\* data.find((d) => d.id === nodeId): the index of the first such node, or 0.
FindNode(data, nodeId) ==
  LET at == {i \in 1..Len(data) : data[i].id = nodeId}
  IN IF at = {} THEN 0 ELSE CHOOSE i \in at : \A j \in at : i <= j

\* The r a circle of node d gets, by its class.
CircleR(class, d) == IF class = "hole" THEN HolePadding ELSE d.r

\* The box an image of node d gets.
ImageBox(d) ==
  [x |-> -(d.r - ClipPadding), y |-> -(d.r - ClipPadding),
   width |-> (d.r - ClipPadding) * 2, height |-> (d.r - ClipPadding) * 2]

\* Mutant of updateVisualsOnTick: the circles grow by the node's radius.
updateVisualsGrowing(nodeGroup, defs, data) ==
  [nodeGroup |->
     Tuple([i \in 1..Len(nodeGroup) |->
        [nodeGroup[i] EXCEPT
           !.circles = Tuple([c \in 1..Len(@) |-> [@[c] EXCEPT !.r = @ + data[i].r]])]]),
   defs |-> defs]

updateVisualsOnTick(nodeGroup, defs, data) ==
  [nodeGroup |->
     Tuple([i \in 1..Len(nodeGroup) |->
        LET d == data[i]
            el == nodeGroup[i]
        IN [transform |-> <<d.x, d.y>>,
            circles |-> Tuple([c \in 1..Len(el.circles) |->
                          [el.circles[c] EXCEPT !.r = CircleR(el.circles[c].class, d)]]),
            image |-> Tuple([c \in 1..Len(el.image) |-> ImageBox(d)])]]),
   defs |->
     Tuple([i \in 1..Len(defs) |->
        LET n == FindNode(data, StripClip(defs[i].id))
        IN [defs[i] EXCEPT !.r = IF n # 0 THEN data[n].r - ClipPadding ELSE 0]])]

\* simulation.on("tick", ...): the simulation has stepped, the elements
\* follow.
TickHandler(sim) ==
  LET out == updateVisualsOnTick(sim.nodeGroup, sim.defs, sim.nodes)
  IN [sim EXCEPT !.nodeGroup = out.nodeGroup,
                 !.defs = out.defs,
                 !.atTick = <<[nodes |-> sim.nodes,
                               radii |-> sim.radii,
                               nodeGroup |-> out.nodeGroup,
                               defs |-> out.defs]>>]

----------------------------------------------------------------------------
\* The entrance animation (animateNodeEntrance).

\* The time between two animation frames, in ms: a hover transition
\* (ANIMATION_DURATION / 2) lasts FramesPerTween of them.
FrameMs == (ANIMATION_DURATION \div 2) \div FramesPerTween

\* A part of a node's entrance: the transitions of its circles, of its image
\* or of its clip circle.  It is scheduled, then running with the
\* interpolations `tw` it took at its start, then off (ended, interrupted or
\* cancelled).
Scheduled == [st |-> "scheduled", tw |-> <<>>]

Off == [st |-> "off", tw |-> <<>>]

\* animateNodeEntrance(node, d, i, defs), i = n - 1: the transitions of node
\* n of generation g, k frames after they were created (-1: none yet).
\* `size` is imageSize, taken from d.r as the transitions are created.
Entrance(g, n, d) ==
  [kind |-> "entrance", g |-> g, n |-> n, k |-> -1,
   size |-> d.r - ClipPadding,
   circles |-> Scheduled,
   image |-> IF d.type = "title" THEN Off ELSE Scheduled,
   clip |-> Scheduled]

\* nodeGroup.each(...): the entrances of a new node set, in node order.
EntranceTimers(g, data) ==
  Tuple([n \in 1..Len(data) |-> Entrance(g, n, data[n])])

\* defs.select(`#clip-${d.id} circle`): the first clipPath with that id (0:
\* none).
ClipTarget(defs, d) ==
  LET at == {i \in 1..Len(defs) : defs[i].id = ClipId(d)}
  IN IF at = {} THEN 0 ELSE CHOOSE i \in at : \A j \in at : i <= j

\* A transition of an attribute from a to b takes no tween when the two are
\* equal as it starts; otherwise it writes the interpolated value.
Tweened(now, a, b, e) == IF a = b THEN now ELSE Interpolate(a, b, e)

\* The eased time of a transition `elapsed` ms after its delay.
Progress(elapsed, duration) ==
  IF elapsed >= duration THEN 1000 ELSE EaseCircle(elapsed, duration)

\* A part after a frame `elapsed` ms after the delay: started with the
\* interpolations `tw0` if it was scheduled, off once its duration is over.
PartStep(part, tw0, elapsed, duration) ==
  IF part.st = "off" THEN Off
  ELSE IF elapsed >= duration THEN Off
  ELSE [st |-> "running", tw |-> IF part.st = "scheduled" THEN tw0 ELSE part.tw]

\* The interpolations a part applies in this frame.
PartTweens(part, tw0) == IF part.st = "scheduled" THEN tw0 ELSE part.tw

\* Mutant of EntranceFrame: the node's radius ramps with its circles, from 0
\* to the radius it was built with.
EntranceFrameRamps(sim, t) ==
  LET k == t.k + 1
      elapsed == k * FrameMs - (t.n - 1) * ENTRANCE_ANIMATION_DELAY
      e == IF elapsed < 0 THEN 0 ELSE Progress(elapsed, OPACITY_ANIMATION_DURATION)
  IN [sim |-> [sim EXCEPT !.nodes[t.n].r = Interpolate(0, t.size + ClipPadding, e)],
      t |-> [t EXCEPT !.k = k,
                      !.circles = IF elapsed >= OPACITY_ANIMATION_DURATION THEN Off ELSE @,
                      !.image = Off,
                      !.clip = Off]]

\* One frame of the entrance t: the elements of its node after it, and t.
EntranceFrame(sim, t) ==
  LET k == t.k + 1
      elapsed == k * FrameMs - (t.n - 1) * ENTRANCE_ANIMATION_DELAY
      d == sim.nodes[t.n]
      el == sim.nodeGroup[t.n]
      c == ClipTarget(sim.defs, d)
      \* circles: to the r of their class, the node's radius read at the start
      cTw == PartTweens(t.circles,
               Tuple([j \in 1..Len(el.circles) |->
                  [from |-> el.circles[j].r, to |-> CircleR(el.circles[j].class, d)]]))
      cE == Progress(elapsed, OPACITY_ANIMATION_DURATION)
      circles ==
        IF t.circles.st = "off" THEN el.circles
        ELSE Tuple([j \in 1..Len(el.circles) |->
               [el.circles[j] EXCEPT
                  !.r = Tweened(@, cTw[j].from, cTw[j].to, cE)]])
      \* image: to the box of imageSize
      to == [x |-> -t.size, y |-> -t.size, width |-> t.size * 2, height |-> t.size * 2]
      iTw == PartTweens(t.image,
               Tuple([j \in 1..Len(el.image) |-> [from |-> el.image[j], to |-> to]]))
      iE == Progress(elapsed, ENTRANCE_ANIMATION_DURATION)
      image ==
        IF t.image.st = "off" THEN el.image
        ELSE Tuple([j \in 1..Len(el.image) |->
               [a \in {"x", "y", "width", "height"} |->
                  Tweened(el.image[j][a], iTw[j].from[a], iTw[j].to[a], iE)]])
      \* clip circle: to imageSize
      pTw == PartTweens(t.clip,
               IF c = 0 THEN <<>> ELSE <<[from |-> sim.defs[c].r, to |-> t.size]>>)
      defs ==
        IF t.clip.st = "off" \/ c = 0 THEN sim.defs
        ELSE [sim.defs EXCEPT ![c].r = Tweened(@, pTw[1].from, pTw[1].to, iE)]
  IN IF elapsed < 0 THEN [sim |-> sim, t |-> [t EXCEPT !.k = k]]
     ELSE [sim |-> [sim EXCEPT !.nodeGroup[t.n].circles = circles,
                               !.nodeGroup[t.n].image = image,
                               !.defs = defs],
           t |-> [t EXCEPT
                    !.k = k,
                    !.circles = PartStep(@, cTw, elapsed, OPACITY_ANIMATION_DURATION),
                    !.image = PartStep(@, iTw, elapsed, ENTRANCE_ANIMATION_DURATION),
                    !.clip = IF c = 0 THEN Off
                             ELSE PartStep(@, pTw, elapsed, ENTRANCE_ANIMATION_DURATION)]]

EntranceOver(t) == t.circles.st = "off" /\ t.image.st = "off" /\ t.clip.st = "off"

----------------------------------------------------------------------------
\* One animation frame (d3-timer's flush): every timer of the list runs once,
\* in creation order.  A simulation's timer ticks it.  A transition's first
\* frame starts it -- interrupting the running transition of the same element
\* and cancelling its older ones -- and calls the tween at t = 0; each later
\* frame calls it at the eased elapsed time, the last one at t = 1.
RECURSIVE KeepTimers(_, _, _)
KeepTimers(ts, dead, i) ==
  IF i > Len(ts) THEN <<>>
  ELSE (IF i \in dead THEN <<>> ELSE <<ts[i]>>) \o KeepTimers(ts, dead, i + 1)

HasSimTimer(ts, dead, g) ==
  \E j \in 1..Len(ts) : j \notin dead /\ ts[j] = SimTimer(g)

\* The timers ts with the part `part` of the entrances js switched off.
CancelPart(ts, js, part) ==
  Tuple([j \in 1..Len(ts) |-> IF j \in js THEN [ts[j] EXCEPT ![part] = Off] ELSE ts[j]])

\* The entrances among js that have no part left.
Over(ts, js) == {j \in js : EntranceOver(ts[j])}

\* The entrances whose clip transition the clip transition of entrance i
\* ends as it starts: those on the same clip circle, running or older.
ClipRivals(sim, ts, i) ==
  {j \in 1..Len(ts) :
     /\ j # i
     /\ ts[j].kind = "entrance"
     /\ ts[j].g = ts[i].g
     /\ ClipTarget(sim.defs, sim.nodes[ts[j].n]) = ClipTarget(sim.defs, sim.nodes[ts[i].n])
     /\ (ts[j].clip.st = "running" \/ (ts[j].clip.st = "scheduled" /\ j < i))}

\* The entrances whose image transition a hover or leave transition i ends
\* as it starts: on an album, the handler also starts a transition of the
\* image (its filter).
ImageRivals(sim, ts, i) ==
  {j \in 1..Len(ts) :
     /\ ts[j].kind = "entrance"
     /\ ts[j].g = ts[i].g
     /\ ts[j].n = ts[i].n
     /\ sim.nodes[ts[i].n].type = "album"
     /\ ts[j].image.st # "off"}

\* The stepper's timer callback: one tick, the tick handler, and the stepper
\* stops once alpha is under alphaMin.
Step(sim) ==
  [TickHandler(SimulationTick(sim)) EXCEPT
     !.running = IF AlphaStep(sim.alpha) < AlphaMinPm THEN FALSE ELSE @]

RECURSIVE RunTimers(_, _, _, _)
RunTimers(gs, ts, dead, i) ==
  IF i > Len(ts) THEN [gens |-> gs, timers |-> KeepTimers(ts, dead, 1)]
  ELSE IF i \in dead THEN RunTimers(gs, ts, dead, i + 1)
  ELSE IF ts[i].kind = "sim"
    THEN RunTimers([gs EXCEPT ![ts[i].g] = Step(@)], ts,
                   IF AlphaStep(gs[ts[i].g].alpha) < AlphaMinPm
                     THEN dead \cup {i} ELSE dead,
                   i + 1)
  ELSE IF ts[i].kind = "entrance"
    THEN
      LET t == ts[i]
          out == EntranceFrame(gs[t.g], t)
          rivals == IF t.clip.st = "scheduled" /\ out.t.clip.st # "scheduled"
                      THEN ClipRivals(gs[t.g], ts, i) ELSE {}
          ts2 == CancelPart([ts EXCEPT ![i] = out.t], rivals, "clip")
      IN RunTimers([gs EXCEPT ![t.g] = out.sim], ts2,
                   dead \cup Over(ts2, rivals \cup {i}), i + 1)
  ELSE
    LET t == ts[i]
        k == t.k + 1
        ended == k >= FramesPerTween
        e == IF ended THEN 1000 ELSE EaseCircle(k, FramesPerTween)
        sim == TweenWrite(gs[t.g], t.n, Interpolate(t.from, t.to, e))
        interrupted ==
          IF t.k >= 0 THEN {}
          ELSE {j \in 1..Len(ts) :
                  /\ j # i
                  /\ ts[j].kind = "tween"
                  /\ ts[j].g = t.g
                  /\ ts[j].n = t.n
                  /\ (ts[j].k >= 0 \/ j < i)}
        rivals == IF t.k >= 0 THEN {} ELSE ImageRivals(gs[t.g], ts, i)
        ts1 == CancelPart([ts EXCEPT ![i].k = k], rivals, "image")
        dead2 == dead \cup interrupted \cup (IF ended THEN {i} ELSE {})
                   \cup Over(ts1, rivals)
        ts2 == IF sim.running /\ ~HasSimTimer(ts, dead2, t.g)
                 THEN Append(ts1, SimTimer(t.g))
                 ELSE ts1
    IN RunTimers([gs EXCEPT ![t.g] = sim], ts2, dead2, i + 1)

----------------------------------------------------------------------------
\* State.
Live == Len(gens)

\* A node set whose effect has been cleaned up: replaced, or torn down.
Disposed(g) == g < Len(gens) \/ ~mounted

Radii(sim) == Tuple([i \in 1..Len(sim.nodes) |-> sim.nodes[i].r])

\* The draws of one build, one per node created: rotations of (0, 999, 500).
DrawAt(j) == CASE j % 3 = 0 -> 0 [] j % 3 = 1 -> 999 [] OTHER -> 500

DrawVectors == {[k \in 1..MaxItems |-> DrawAt(k + s)] : s \in 0..2}

NoEvent == [seq |-> "none", g |-> 0, n |-> 0, r |-> 0, orig |-> 0]

\* The draws the hover specification starts from.
StageDraws == {[k \in 1..MaxItems |-> DrawAt(k + s)] : s \in {0, 2}}

\* The draws of the lifecycle specification: one vector at the first render,
\* another at every rebuild.
MountDraws == [k \in 1..MaxItems |-> DrawAt(k)]

RebuildDraws == [k \in 1..MaxItems |-> DrawAt(k + 2)]

\* The search bar (components/SearchBar.tsx, hooks/useSearch, Navigation).
\* A string is the sequence of its characters.
Queries == UNION {[1..k -> {"a", "b", "A", " "}] : k \in 0..MaxQuery}

\* The catalog as the search reads it: a name per group, a title per album.
Titled(id, src, title) == [id |-> id, src |-> src, title |-> title]

CatalogSearch ==
  << Group("x", <<"A", "b">>, << Titled(1, "x1.jpg", <<"B", "a">>),
                                 Titled(2, "x2.jpg", <<"a">>) >>),
     Group("y", <<"B">>, << Titled(3, "y3.jpg", <<"a", "b">>) >>) >>

\* String.prototype.toLowerCase
ToLowerCase(s) ==
  [i \in 1..Len(s) |-> CASE s[i] = "A" -> "a" [] s[i] = "B" -> "b" [] OTHER -> s[i]]

\* String.prototype.trim
RECURSIVE Trim(_)
Trim(s) ==
  IF s = <<>> THEN s
  ELSE IF Head(s) = " " THEN Trim(Tail(s))
  ELSE IF s[Len(s)] = " " THEN Trim(SubSeq(s, 1, Len(s) - 1))
  ELSE s

\* String.prototype.includes
Includes(s, q) == \E i \in 0..(Len(s) - Len(q)) : SubSeq(s, i + 1, i + Len(q)) = q

\* String.prototype.localeCompare: letters first, case breaks a tie.
Rank(c) == CASE c = " " -> 0 [] c = "a" -> 1 [] c = "A" -> 2 [] c = "b" -> 3
             [] c = "B" -> 4 [] OTHER -> 5

RECURSIVE LexCompare(_, _)
LexCompare(s, t) ==
  IF s = <<>> /\ t = <<>> THEN 0
  ELSE IF s = <<>> THEN -1
  ELSE IF t = <<>> THEN 1
  ELSE IF Head(s) < Head(t) THEN -1
  ELSE IF Head(s) > Head(t) THEN 1
  ELSE LexCompare(Tail(s), Tail(t))

LocaleCompare(s, t) ==
  LET letters == LexCompare([i \in 1..Len(s) |-> Rank(ToLowerCase(s)[i])],
                            [i \in 1..Len(t) |-> Rank(ToLowerCase(t)[i])])
  IN IF letters # 0 THEN letters
     ELSE LexCompare([i \in 1..Len(s) |-> Rank(s[i])], [i \in 1..Len(t) |-> Rank(t[i])])

\* groups.forEach(...) twice: the artists that match, then the albums.
RECURSIVE MatchingArtists(_, _, _)
MatchingArtists(gs, query, i) ==
  IF i > Len(gs) THEN <<>>
  ELSE (IF Includes(ToLowerCase(gs[i].name), query) THEN << [type |-> "artist", id |-> gs[i].id, name |-> gs[i].name,
                 artist |-> "undefined"] >>
        ELSE <<>>)
       \o MatchingArtists(gs, query, i + 1)

RECURSIVE MatchingAlbums(_, _, _, _)
MatchingAlbums(gs, query, i, j) ==
  IF i > Len(gs) THEN <<>>
  ELSE IF j > Len(gs[i].albums) THEN MatchingAlbums(gs, query, i + 1, 1)
  ELSE (IF Includes(ToLowerCase(gs[i].albums[j].title), query)
        THEN << [type |-> "album", id |-> NumStr(gs[i].albums[j].id),
                 name |-> gs[i].albums[j].title, artist |-> gs[i].id] >>
        ELSE <<>>)
       \o MatchingAlbums(gs, query, i, j + 1)

\* The comparator of results.sort: exact matches, then artists, then by name.
CompareResults(a, b, query) ==
  LET aExact == ToLowerCase(a.name) = query
      bExact == ToLowerCase(b.name) = query
  IN IF aExact /\ ~bExact THEN -1
     ELSE IF ~aExact /\ bExact THEN 1
     ELSE IF a.type # b.type THEN (IF a.type = "artist" THEN -1 ELSE 1)
     ELSE LocaleCompare(a.name, b.name)

\* Array.prototype.sort (stable): r goes before the first one it precedes.
RECURSIVE InsertResult(_, _, _)
InsertResult(sorted, r, query) ==
  IF sorted = <<>> THEN <<r>>
  ELSE IF CompareResults(r, Head(sorted), query) < 0 THEN <<r>> \o sorted
  ELSE <<Head(sorted)>> \o InsertResult(Tail(sorted), r, query)

RECURSIVE SortResults(_, _, _)
SortResults(rs, query, k) ==
  IF k = 0 THEN <<>>
  ELSE InsertResult(SortResults(rs, query, k - 1), rs[k], query)

\* useSearch's searchResults memo.
SearchResults(gs, searchQuery) ==
  IF Trim(searchQuery) = <<>> THEN <<>>
  ELSE LET query == Trim(ToLowerCase(searchQuery))
           results == MatchingArtists(gs, query, 1) \o MatchingAlbums(gs, query, 1, 1)
       IN SortResults(results, query, Len(results))

\* useState(""), useState(-1), useState(false); href is window.location.href
\* once the bar has assigned it, fault is set by a handler that threw.
SearchInit ==
  [query |-> <<>>, selectedIndex |-> -1, isOpen |-> FALSE, href |-> <<>>,
   fault |-> FALSE]

\* setSearchQuery(value): a new query re-computes the results, and the
\* effect on [searchResults] resets the selection.
WithQuery(s, value) ==
  IF value = s.query THEN s
  ELSE [s EXCEPT !.query = value, !.selectedIndex = -1]

\* Navigation's search button.
HandleSearchToggle ==
  /\ search' = [search EXCEPT !.isOpen = ~@]
  /\ UNCHANGED <<collage, slideshow, carousel, pile>>

\* The input's onChange.
QueryChange(value) ==
  /\ search.isOpen
  /\ value # search.query
  /\ search' = WithQuery(search, value)
  /\ UNCHANGED <<collage, slideshow, carousel, pile>>

\* The clear button, shown while the query is not empty.
ClearClick ==
  /\ search.isOpen
  /\ search.query # <<>>
  /\ search' = WithQuery(search, <<>>)
  /\ UNCHANGED <<collage, slideshow, carousel, pile>>

\* undefined, where a result is expected
NoResult == [type |-> "undefined", id |-> "", name |-> <<>>, artist |-> ""]

\* handleResultClick: undefined has no .type, the handler throws there.
HandleResultClick(s, result) ==
  IF result = NoResult THEN [s EXCEPT !.fault = TRUE]
  ELSE [WithQuery(s, <<>>) EXCEPT
          !.href = IF result.type = "artist" THEN <<"/artist/", result.id>>
                   ELSE <<"/artist/", result.artist, "?album=", result.id>>,
          !.isOpen = FALSE]

\* searchResults[i], i counted from 0
ResultAt(rs, i) == IF i >= 0 /\ i < Len(rs) THEN rs[i + 1] ELSE NoResult

\* handleKeyDown
HandleKeyDown(s, rs, key) ==
  CASE key = "Escape" -> [s EXCEPT !.isOpen = FALSE]
    [] key = "ArrowDown" ->
         [s EXCEPT !.selectedIndex = IF @ < Len(rs) - 1 THEN @ + 1 ELSE 0]
    [] key = "ArrowUp" ->
         [s EXCEPT !.selectedIndex = IF @ > 0 THEN @ - 1 ELSE Len(rs) - 1]
    [] key = "Enter" /\ s.selectedIndex >= 0 ->
         HandleResultClick(s, ResultAt(rs, s.selectedIndex))
    [] OTHER -> s

KeyDown(key) ==
  /\ search.isOpen
  /\ search' = HandleKeyDown(search, SearchResults(groups, search.query), key)
  /\ UNCHANGED <<collage, slideshow, carousel, pile>>

\* A click on a listed result.
ResultClick(i) ==
  /\ search.isOpen
  /\ i < Len(SearchResults(groups, search.query))
  /\ search' = HandleResultClick(search, ResultAt(SearchResults(groups, search.query), i))
  /\ UNCHANGED <<collage, slideshow, carousel, pile>>

----------------------------------------------------------------------------
\* The full-screen slideshow (FullScreenCarousel, the default export).
\* pending holds the 300 ms timers not fired yet, oldest first, each with the
\* index its closure carries; asked is history: the index the most recent
\* request passed to changeSlide (NoSlide: no request so far).
NoSlide == -1

SlideshowInit(n) ==
  [items |-> n, currentSlide |-> 0, isVisible |-> TRUE, isPaused |-> FALSE,
   pending |-> <<>>, asked |-> NoSlide]

\* changeSlide
ChangeSlide(s, newIndex) ==
  IF newIndex # s.currentSlide
  THEN [s EXCEPT !.isVisible = FALSE, !.pending = Append(@, newIndex), !.asked = newIndex]
  ELSE [s EXCEPT !.asked = newIndex]

\* goToNext: the next button, ArrowRight
GoToNext ==
  /\ Len(slideshow.pending) < MaxPending
  /\ slideshow' = ChangeSlide(slideshow, (slideshow.currentSlide + 1) % slideshow.items)
  /\ UNCHANGED <<collage, search, carousel, pile>>

\* goToPrevious: the previous button, ArrowLeft
GoToPrevious ==
  /\ Len(slideshow.pending) < MaxPending
  /\ slideshow' = ChangeSlide(slideshow,
                    (slideshow.currentSlide - 1 + slideshow.items) % slideshow.items)
  /\ UNCHANGED <<collage, search, carousel, pile>>

\* A click on the dot of slide index.
DotClick(index) ==
  /\ Len(slideshow.pending) < MaxPending
  /\ index < slideshow.items
  /\ slideshow' = ChangeSlide(slideshow, index)
  /\ UNCHANGED <<collage, search, carousel, pile>>

\* togglePause: the space bar, Escape
TogglePause ==
  /\ slideshow' = [slideshow EXCEPT !.isPaused = ~@]
  /\ UNCHANGED <<collage, search, carousel, pile>>

\* The oldest 300 ms timer fires.
SlideTimer ==
  /\ slideshow.pending # <<>>
  /\ slideshow' = [slideshow EXCEPT !.currentSlide = Head(slideshow.pending),
                                    !.isVisible = TRUE,
                                    !.pending = Tail(@)]
  /\ UNCHANGED <<collage, search, carousel, pile>>

----------------------------------------------------------------------------
\* The album carousel (BranchesMarginales/Carousel).  albums is
\* albums.length, timers the number of 600 ms timers not fired yet, last is
\* history: the kind of the most recent request or timer.
ItemsPerView == 3

CarouselInit(len) ==
  [albums |-> len, currentIndex |-> 0, isTransitioning |-> FALSE, timers |-> 0,
   last |-> "none"]

MaxIndex(c) == Max2(0, c.albums - ItemsPerView)

\* Mutant of UpdateCarousel: no lock.
UpdateCarouselUnlocked(c, index) ==
  [c EXCEPT !.isTransitioning = TRUE, !.currentIndex = index, !.timers = @ + 1]

\* updateCarousel
UpdateCarousel(c, index) ==
  IF c.isTransitioning THEN c
  ELSE [c EXCEPT !.isTransitioning = TRUE, !.currentIndex = index, !.timers = @ + 1]

\* Mutant of HandleNext: no wrap.
HandleNextNoWrap(c) == UpdateCarousel(c, c.currentIndex + 1)

HandleNext(c) ==
  UpdateCarousel(c, IF c.currentIndex < MaxIndex(c) THEN c.currentIndex + 1 ELSE 0)

HandlePrev(c) ==
  UpdateCarousel(c, IF c.currentIndex > 0 THEN c.currentIndex - 1 ELSE MaxIndex(c))

HandleIndicatorClick(c, index) == UpdateCarousel(c, index)

\* The buttons are disabled while a transition runs; the handlers test the
\* lock again, whoever calls them.
NextClick ==
  /\ carousel' = [HandleNext(carousel) EXCEPT !.last = "next"]
  /\ UNCHANGED <<collage, search, slideshow, pile>>

PrevClick ==
  /\ carousel' = [HandlePrev(carousel) EXCEPT !.last = "prev"]
  /\ UNCHANGED <<collage, search, slideshow, pile>>

IndicatorClick(index) ==
  /\ index <= MaxIndex(carousel)
  /\ carousel' = [HandleIndicatorClick(carousel, index) EXCEPT !.last = "indicator"]
  /\ UNCHANGED <<collage, search, slideshow, pile>>

\* The auto-scroll interval fires.
AutoScroll ==
  /\ carousel' = [(IF ~carousel.isTransitioning THEN HandleNext(carousel) ELSE carousel)
                    EXCEPT !.last = "auto"]
  /\ UNCHANGED <<collage, search, slideshow, pile>>

\* The 600 ms timer fires.
TransitionEnd ==
  /\ carousel.timers > 0
  /\ carousel' = [carousel EXCEPT !.isTransitioning = FALSE, !.timers = @ - 1,
                                  !.last = "timer"]
  /\ UNCHANGED <<collage, search, slideshow, pile>>

----------------------------------------------------------------------------
\* The album pile (hooks/useAlbumSelection).  selectionHistory is the Set in
\* insertion order.
NoAlbum == -1

HistoryLift == 50

SelectedLift == 100

PileInit(len) == [albumsLength |-> len, selectedAlbum |-> NoAlbum, selectionHistory |-> <<>>]

Elements(h) == {h[k] : k \in 1..Len(h)}

\* new Set([...prev, index])
SetAdd(h, index) == IF index \in Elements(h) THEN h ELSE Append(h, index)

\* Array.from(set).indexOf(index)
IndexOf(h, index) == (CHOOSE k \in 1..Len(h) : h[k] = index) - 1

HandleAlbumClick(p, index) ==
  IF p.selectedAlbum = index THEN [p EXCEPT !.selectedAlbum = NoAlbum]
  ELSE [p EXCEPT !.selectedAlbum = index, !.selectionHistory = SetAdd(@, index)]

HandleUnfocus(p) == [p EXCEPT !.selectedAlbum = NoAlbum]

HandleRandomSelection(p, randomIndex) ==
  IF p.selectedAlbum = NoAlbum
  THEN [p EXCEPT !.selectedAlbum = randomIndex, !.selectionHistory = SetAdd(@, randomIndex)]
  ELSE [p EXCEPT !.selectedAlbum = NoAlbum]

\* Mutant of GetAlbumZIndex: the selected album stays at its history level.
GetAlbumZIndexFlat(p, index) ==
  IF index \in Elements(p.selectionHistory)
  THEN p.albumsLength + IndexOf(p.selectionHistory, index) + HistoryLift
  ELSE index

\* getAlbumZIndex
GetAlbumZIndex(p, index) ==
  IF p.selectedAlbum = index
  THEN p.albumsLength + Len(p.selectionHistory) + SelectedLift
  ELSE IF index \in Elements(p.selectionHistory)
  THEN p.albumsLength + IndexOf(p.selectionHistory, index) + HistoryLift
  ELSE index

IsSelected(p, index) == p.selectedAlbum = index

\* A click on the album at index; it does not reach the background.
AlbumClick(index) ==
  /\ index < pile.albumsLength
  /\ pile' = HandleAlbumClick(pile, index)
  /\ UNCHANGED <<collage, search, slideshow, carousel>>

\* A click on the background, which has the handler while an album is selected.
UnfocusClick ==
  /\ pile.selectedAlbum # NoAlbum
  /\ pile' = HandleUnfocus(pile)
  /\ UNCHANGED <<collage, search, slideshow, carousel>>

\* A click on the random-selection button; randomIndex is
\* Math.floor(Math.random() * albumsLength).
RandomClick(randomIndex) ==
  /\ randomIndex = 0 \/ randomIndex < pile.albumsLength
  /\ pile' = HandleRandomSelection(pile, randomIndex)
  /\ UNCHANGED <<collage, search, slideshow, carousel>>

----------------------------------------------------------------------------
\* The catalog's albums, all groups together (GroupContext's albums).
RECURSIVE AlbumCount(_)
AlbumCount(gs) == IF gs = <<>> THEN 0 ELSE Len(Head(gs).albums) + AlbumCount(Tail(gs))

\* One group with n albums.
CatalogOf(n) == << Group("A", "Alpha", [k \in 1..n |-> Album(k, "a.jpg")]) >>

\* The other components of the page, as first rendered.
WidgetsInit ==
  /\ search = SearchInit
  /\ slideshow = SlideshowInit(MaxSlides)
  /\ carousel = CarouselInit(AlbumCount(groups))
  /\ pile = PileInit(AlbumCount(groups))

----------------------------------------------------------------------------
\* After the first render and its effect: filter "tous", one simulation.
InitWith(catalogs, draws) ==
  /\ groups \in catalogs
  /\ filter = "tous"
  /\ mounted = TRUE
  /\ svg = TRUE
  /\ \E u \in draws :
       gens = <<NewSimulation(groups, DataMemo(groups, "tous", u))>>
  /\ timers = <<SimTimer(1)>> \o EntranceTimers(1, gens[1].nodes)
  /\ hovered = 0
  /\ route = <<>>
  /\ nEvents = 0
  /\ nFrames = 0
  /\ hist = [assigned |-> <<Radii(gens[1])>>,
             clusters |-> gens[1].clusters,
             last |-> NoEvent,
             stray |-> 0,
             staleWrites |-> FALSE]
  /\ WidgetsInit

\* Mutant of RebuildData: a node whose id the live node set already holds is
\* that object again.
RebuildDataKeepsNodes(gs, f, u) ==
  LET fresh == DataMemo(gs, f, u)
      old == gens[Len(gens)].nodes
  IN [k \in 1..Len(fresh) |->
        IF \E j \in 1..Len(old) : old[j].id = fresh[k].id
          THEN old[CHOOSE j \in 1..Len(old) : old[j].id = fresh[k].id]
          ELSE fresh[k]]

\* A re-render with a new filter runs the `data` useMemo again: new objects.
RebuildData(gs, f, u) == DataMemo(gs, f, u)

\* Mutant of EffectGuard: only the node list is looked at.
EffectGuardDataOnly(data, container) == Len(data) # 0

\* The effect's first line, `if (!data.length || !svgRef.current) return;`:
\* TRUE when the effect goes on.
EffectGuard(data, container) == Len(data) # 0 /\ container

\* The filter buttons: setFilter(f).  A new value re-renders: `data` is
\* rebuilt, the cleanup of the effect's last run (if it got past its guard)
\* stops the simulation, and the effect runs again: past its guard, the svg
\* is emptied and a new simulation is created over the new nodes.
FilterChange(f, u, limit) ==
  /\ mounted
  /\ f # filter
  /\ Len(gens) <= limit
  /\ LET data == RebuildData(groups, f, u)
         stopped == IF Live = 0 THEN gens ELSE [gens EXCEPT ![Live].running = FALSE]
         ts == SelectSeq(timers, LAMBDA t : t # SimTimer(Live))
     IN IF EffectGuard(data, svg)
          THEN /\ gens' = Append(stopped, NewSimulation(groups, data))
               /\ timers' = Append(ts, SimTimer(Live + 1))
                               \o EntranceTimers(Live + 1, data)
               /\ hist' = [hist EXCEPT
                             !.assigned = Append(@, Radii(gens'[Live + 1])),
                             !.last = NoEvent]
          ELSE /\ gens' = stopped
               /\ timers' = ts
               /\ hist' = [hist EXCEPT !.last = NoEvent]
  /\ filter' = f
  /\ hovered' = 0
  /\ UNCHANGED <<groups, mounted, svg, route, nEvents, nFrames>>
  /\ UNCHANGED widgets

\* The renderer attaches the <svg> element: svgRef.current is set.  No
\* dependency of the effect changes, so it does not run.
RefAttach ==
  /\ ~svg
  /\ svg' = TRUE
  /\ UNCHANGED <<groups, filter, mounted, gens, timers, hovered, route, nEvents, nFrames,
                 hist>>
  /\ UNCHANGED widgets

\* Unmount: the effect's cleanup, simulation.stop().
Teardown ==
  /\ mounted
  /\ mounted' = FALSE
  /\ gens' = [gens EXCEPT ![Live].running = FALSE]
  /\ timers' = SelectSeq(timers, LAMBDA t : t # SimTimer(Live))
  /\ hovered' = 0
  /\ hist' = [hist EXCEPT !.last = NoEvent]
  /\ UNCHANGED <<groups, filter, svg, route, nEvents, nFrames>>
  /\ UNCHANGED widgets

\* An event the document delivers in order: the pointer enters a live node
\* it is not inside, or leaves the one it is inside.  A stray event is any
\* other: a leave with no enter before it, an event on a disposed node set.
InOrder(g, n, enter) ==
  /\ ~Disposed(g)
  /\ IF enter THEN hovered = 0 ELSE hovered = n

PointerGuard(g, n, enter, limit) ==
  /\ nEvents < limit
  /\ g \in 1..Len(gens)
  /\ n \in 1..Len(gens[g].nodes)
  /\ gens[g].nodes[n].type # "title"
  /\ \/ InOrder(g, n, enter)
     \/ hist.stray < MaxStray /\ (Disposed(g) \/ (~enter /\ hovered = 0))

\* mouseenter: handleNodeHover(this, d, simulation)
PointerEnter(g, n, limit) ==
  /\ PointerGuard(g, n, TRUE, limit)
  /\ LET d == gens[g].nodes[n]
     IN /\ gens' = [gens EXCEPT ![g].nodes[n] = HoverNode(d)]
        /\ timers' = Append(timers, Transition(g, n, d.r, HoverTarget(d)))
        /\ hist' = [hist EXCEPT
                      !.last = [seq |-> "enter", g |-> g, n |-> n, r |-> d.r,
                                orig |-> IF Has(d, "originalR") THEN d.originalR ELSE 0],
                      !.stray = IF InOrder(g, n, TRUE) THEN @ ELSE @ + 1]
  /\ hovered' = IF Disposed(g) THEN hovered ELSE n
  /\ nEvents' = nEvents + 1
  /\ UNCHANGED <<groups, filter, mounted, svg, route, nFrames>>
  /\ UNCHANGED widgets

\* mouseleave: handleNodeLeave(this, d, simulation)
PointerLeave(g, n, limit) ==
  /\ PointerGuard(g, n, FALSE, limit)
  /\ LET d == gens[g].nodes[n]
     IN /\ timers' = Append(timers, Transition(g, n, d.r, LeaveTarget(d)))
        /\ hist' = [hist EXCEPT
                      !.last = IF @.seq = "enter" /\ @.g = g /\ @.n = n
                                 THEN [@ EXCEPT !.seq = "enter-leave"]
                                 ELSE NoEvent,
                      !.stray = IF InOrder(g, n, FALSE) THEN @ ELSE @ + 1]
  /\ hovered' = IF Disposed(g) THEN hovered ELSE 0
  /\ nEvents' = nEvents + 1
  /\ UNCHANGED <<groups, filter, mounted, svg, gens, route, nFrames>>
  /\ UNCHANGED widgets

\* A field that is set and truthy: a non-empty string.
Truthy(d, f) == Has(d, f) /\ d[f] # ""

\* Mutant of handleNodeClick: an album goes to its artist's page.
handleNodeClickArtist(d) ==
  IF (d.type = "album" \/ d.type = "artist") /\ Truthy(d, "groupId")
    THEN <<"/artist/", d.groupId>>
    ELSE <<>>

\* handleNodeClick(navigate, d): the path passed to navigate, <<>> when it
\* is not called.
handleNodeClick(d) ==
  IF d.type = "album" /\ Truthy(d, "albumId")
    THEN <<"/artist/", d.groupId, "?album=", d.albumId>>
  ELSE IF d.type = "artist" /\ Truthy(d, "groupId")
    THEN <<"/artist/", d.groupId>>
  ELSE <<>>

\* A click on node n of the live node set.  The handler is bound to the
\* nodes that are not the title; on the title nothing runs.
Click(n, limit) ==
  /\ nEvents < limit
  /\ Live > 0
  /\ ~Disposed(Live)
  /\ n \in 1..Len(gens[Live].nodes)
  /\ LET d == gens[Live].nodes[n]
         path == IF d.type # "title" THEN handleNodeClick(d) ELSE <<>>
     IN /\ route' = IF path = <<>> THEN route ELSE path
        /\ hist' = [hist EXCEPT
                      !.last = [seq |-> "click", g |-> Live, n |-> n, r |-> d.r,
                                orig |-> 0]]
  /\ nEvents' = nEvents + 1
  /\ UNCHANGED <<groups, filter, mounted, svg, gens, timers, hovered, nFrames>>
  /\ UNCHANGED widgets

\* requestAnimationFrame: the timers run.
Frame(limit) ==
  /\ nFrames < limit
  /\ timers # <<>>
  /\ LET out == RunTimers(gens, timers, {}, 1)
     IN /\ gens' = out.gens
        /\ timers' = out.timers
  /\ hist' = [hist EXCEPT
                !.last = NoEvent,
                !.staleWrites =
                   @ \/ \E i \in 1..Len(timers) :
                          timers[i].kind = "tween" /\ Disposed(timers[i].g)]
  /\ nFrames' = nFrames + 1
  /\ UNCHANGED <<groups, filter, mounted, svg, hovered, route, nEvents>>
  /\ UNCHANGED widgets

NodeIndexes == 1..(MaxItems + 1)

\* The page's life: filter changes, pointer events, frames, unmount.
Init == InitWith({CatalogFour}, {MountDraws})

Next ==
  \/ \E f \in Filters : FilterChange(f, RebuildDraws, MaxRebuilds)
  \/ Teardown
  \/ \E g \in 1..Len(gens), n \in NodeIndexes : PointerEnter(g, n, MaxEvents)
  \/ \E g \in 1..Len(gens), n \in NodeIndexes : PointerLeave(g, n, MaxEvents)
  \/ Frame(MaxFrames)

Spec == Init /\ [][Next]_vars

\* One node set under the pointer: more events and frames, no rebuild.
NextHover ==
  \/ \E n \in NodeIndexes : PointerEnter(Live, n, HoverEvents)
  \/ \E n \in NodeIndexes : PointerLeave(Live, n, HoverEvents)
  \/ Frame(HoverFrames)

InitHover == InitWith({CatalogFour}, StageDraws)

SpecHover == InitHover /\ [][NextHover]_vars

\* The build alone, over every catalog: the node list and the cluster
\* targets as functions of the catalog, the filter and the draws.
InitBuild == InitWith(Catalogs, DrawVectors)

NextBuild == \E f \in Filters, u \in DrawVectors : FilterChange(f, u, MaxFilterChanges)

SpecBuild == InitBuild /\ [][NextBuild]_vars

\* One node set left to run: frames, and the pointer arriving once alpha
\* has stopped decreasing.
InitSettle == InitWith({CatalogFour}, {MountDraws})

NextSettle ==
  \/ Frame(SettleFrames)
  \/ \E n \in NodeIndexes :
       nFrames >= SettledAfter /\ PointerEnter(Live, n, SettleEvents)
  \/ \E n \in NodeIndexes :
       nFrames >= SettledAfter /\ PointerLeave(Live, n, SettleEvents)

SpecSettle == InitSettle /\ [][NextSettle]_vars

\* Every catalog on screen: frames and pointer events over one node set.
InitRender == InitWith(Catalogs, {MountDraws})

NextRender ==
  \/ \E n \in NodeIndexes : PointerEnter(Live, n, RenderEvents)
  \/ \E n \in NodeIndexes : PointerLeave(Live, n, RenderEvents)
  \/ \E n \in NodeIndexes : Click(n, RenderEvents)
  \/ Frame(RenderFrames)

SpecRender == InitRender /\ [][NextRender]_vars

\* Mounted while svgRef.current was not set: the effect's first run returned
\* at its guard, nothing was built.
InitMount ==
  /\ groups \in {CatalogAB, CatalogFour}
  /\ filter = "tous"
  /\ mounted = TRUE
  /\ svg = FALSE
  /\ gens = <<>>
  /\ timers = <<>>
  /\ hovered = 0
  /\ route = <<>>
  /\ nEvents = 0
  /\ nFrames = 0
  /\ hist = [assigned |-> <<>>,
             clusters |-> <<>>,
             last |-> NoEvent,
             stray |-> 0,
             staleWrites |-> FALSE]
  /\ WidgetsInit

NextMount ==
  \/ \E f \in Filters : FilterChange(f, RebuildDraws, MountRebuilds)
  \/ RefAttach
  \/ \E n \in NodeIndexes : PointerEnter(Live, n, MountEvents)
  \/ \E n \in NodeIndexes : PointerLeave(Live, n, MountEvents)
  \/ Frame(MountFrames)

SpecMount == InitMount /\ [][NextMount]_vars

----------------------------------------------------------------------------
\* The other components of the page, each on its own.  The page as first
\* rendered: the collage's <svg> is not attached yet, nothing was built.
InitPage(catalogs) ==
  /\ groups \in catalogs
  /\ filter = "tous"
  /\ mounted = TRUE
  /\ svg = FALSE
  /\ gens = <<>>
  /\ timers = <<>>
  /\ hovered = 0
  /\ route = <<>>
  /\ nEvents = 0
  /\ nFrames = 0
  /\ hist = [assigned |-> <<>>,
             clusters |-> <<>>,
             last |-> NoEvent,
             stray |-> 0,
             staleWrites |-> FALSE]

InitSearch == InitPage({CatalogSearch}) /\ WidgetsInit

NextSearch ==
  \/ HandleSearchToggle
  \/ \E value \in Queries : QueryChange(value)
  \/ ClearClick
  \/ \E key \in {"Escape", "ArrowDown", "ArrowUp", "Enter"} : KeyDown(key)
  \/ \E i \in 0..MaxItems : ResultClick(i)

SpecSearch == InitSearch /\ [][NextSearch]_vars

\* carousel-items.json holds one slide or more.
InitSlideshow ==
  /\ InitPage({CatalogAB})
  /\ search = SearchInit
  /\ \E n \in 1..MaxSlides : slideshow = SlideshowInit(n)
  /\ carousel = CarouselInit(AlbumCount(groups))
  /\ pile = PileInit(AlbumCount(groups))

NextSlideshow ==
  \/ GoToNext
  \/ GoToPrevious
  \/ \E index \in 0..(MaxSlides - 1) : DotClick(index)
  \/ TogglePause
  \/ SlideTimer

SpecSlideshow == InitSlideshow /\ [][NextSlideshow]_vars

\* BranchesMarginales keeps each album of the catalog at random.
InitCarousel ==
  /\ InitPage({CatalogOf(MaxAlbums)})
  /\ search = SearchInit
  /\ slideshow = SlideshowInit(MaxSlides)
  /\ \E kept \in 0..AlbumCount(groups) : carousel = CarouselInit(kept)
  /\ pile = PileInit(AlbumCount(groups))

NextCarousel ==
  \/ NextClick
  \/ PrevClick
  \/ \E index \in 0..MaxAlbums : IndicatorClick(index)
  \/ AutoScroll
  \/ TransitionEnd

SpecCarousel == InitCarousel /\ [][NextCarousel]_vars

\* A timer that was set fires: the browser runs it once its 600 ms are over.
SpecCarouselFair == SpecCarousel /\ WF_vars(TransitionEnd)

InitPile == InitPage({CatalogOf(n) : n \in 0..MaxPile}) /\ WidgetsInit

NextPile ==
  \/ \E index \in 0..MaxPile : AlbumClick(index)
  \/ UnfocusClick
  \/ \E randomIndex \in 0..MaxPile : RandomClick(randomIndex)

SpecPile == InitPile /\ [][NextPile]_vars

----------------------------------------------------------------------------
\* Properties of the build (SpecBuild).

LiveNodes == gens[Live].nodes

AlbumsShown(f) == f = "tous" \/ f = "album"

ArtistShown(group, f) == (f = "tous" \/ f = "artist") /\ Len(group.albums) > 0

ShownCount(group, f) ==
  (IF AlbumsShown(f) THEN Len(group.albums) ELSE 0)
  + (IF ArtistShown(group, f) THEN 1 ELSE 0)

\* The index of the last node before those of the gi-th group.
RECURSIVE NodesBefore(_, _)
NodesBefore(gi, f) ==
  IF gi = 1 THEN 1 ELSE NodesBefore(gi - 1, f) + ShownCount(groups[gi - 1], f)

RECURSIVE TotalAlbums(_)
TotalAlbums(gi) ==
  IF gi = 0 THEN 0 ELSE TotalAlbums(gi - 1) + Len(groups[gi].albums)

GroupsWithAlbums == {gi \in 1..Len(groups) : Len(groups[gi].albums) > 0}

\* C1: the node list is the title, then per group in catalog order its album
\* nodes (filter "tous" or "album") followed by one artist node (filter "tous"
\* or "artist", group with an album); under "tous" its length is
\* 1 + albums + groups with an album; no artist under "album", no album
\* under "artist".
C1_NodeList ==
  /\ LiveNodes[1].type = "title"
  /\ \A i \in 2..Len(LiveNodes) : LiveNodes[i].type # "title"
  /\ Len(LiveNodes) = NodesBefore(Len(groups) + 1, filter)
  /\ \A gi \in 1..Len(groups) :
       LET group == groups[gi]
           base == NodesBefore(gi, filter)
           nAlbums == IF AlbumsShown(filter) THEN Len(group.albums) ELSE 0
       IN /\ \A a \in 1..nAlbums :
               /\ LiveNodes[base + a].type = "album"
               /\ LiveNodes[base + a].groupId = group.id
               /\ LiveNodes[base + a].albumId = NumStr(group.albums[a].id)
               /\ LiveNodes[base + a].src = group.albums[a].src
          /\ ArtistShown(group, filter) =>
               /\ LiveNodes[base + nAlbums + 1].type = "artist"
               /\ LiveNodes[base + nAlbums + 1].groupId = group.id
  /\ filter = "tous" =>
       Len(LiveNodes) = 1 + TotalAlbums(Len(groups)) + Cardinality(GroupsWithAlbums)
  /\ filter = "album" => \A i \in 1..Len(LiveNodes) : LiveNodes[i].type # "artist"
  /\ filter = "artist" => \A i \in 1..Len(LiveNodes) : LiveNodes[i].type # "album"

\* C1 witness: back under "tous" after a filter change, the scenario's 6 nodes.
C1_Witness ==
  /\ groups = CatalogAB
  /\ filter = "tous"
  /\ Len(gens) > 1
  /\ Len(LiveNodes) = 6

\* C6: at construction every album radius is within [minAlbum, album + maxDelta]
\* and every artist radius within [minArtist, artist + maxDelta].
C6_RadiusBounds ==
  \A g \in 1..Len(gens) : \A i \in 1..Len(gens[g].nodes) :
    LET d == gens[g].nodes[i]
    IN /\ d.type = "album" =>
            MinAlbum <= hist.assigned[g][i]
            /\ hist.assigned[g][i] <= SizeAlbum + MaxDelta
            /\ d.r = hist.assigned[g][i]
       /\ d.type = "artist" =>
            MinArtist <= hist.assigned[g][i]
            /\ hist.assigned[g][i] <= SizeArtist + MaxDelta
            /\ d.r = hist.assigned[g][i]

\* C6 witness: the least draw on an album and the greatest on an artist, in a
\* node set built by a filter change.
C6_Witness ==
  /\ Len(gens) > 1
  /\ \E i \in 1..Len(LiveNodes) :
       LiveNodes[i].type = "album" /\ LiveNodes[i].r = SizeAlbum - MaxDelta
  /\ \E i \in 1..Len(LiveNodes) :
       LiveNodes[i].type = "artist" /\ LiveNodes[i].r = SizeArtist + MaxDelta - 1

\* C7 (as claimed): all ids of the node list are pairwise distinct.
C7_IdsUnique ==
  \A i \in 1..Len(LiveNodes) : \A j \in 1..Len(LiveNodes) :
    i # j => LiveNodes[i].id # LiveNodes[j].id

\* The points of n groups on the circle of radius 240 around (640, 480).
ExpectedRing(n) ==
  CASE n = 1 -> <<<<880, 480>>>>
    [] n = 2 -> <<<<880, 480>>, <<400, 480>>>>
    [] n = 3 -> <<<<880, 480>>, <<520, 687>>, <<520, 273>>>>
    [] n = 4 -> <<<<880, 480>>, <<640, 720>>, <<400, 480>>, <<640, 240>>>>

\* C8: whatever the filter changes were, every rebuild's cluster map has one
\* entry per group of the catalog, the i-th group at angle i / n on the circle
\* of radius min(width, height) / 4 around the center; a node whose key has
\* no entry (the title) is pulled to the center, any other to its group's point.
C8_ClusterGeometry ==
  \A g \in 1..Len(gens) :
    LET clusters == gens[g].clusters
    IN /\ DOMAIN clusters = {groups[gi].id : gi \in 1..Len(groups)}
       /\ Cardinality(DOMAIN clusters) = Len(groups)
       /\ \A gi \in 1..Len(groups) :
            /\ clusters[groups[gi].id].x = ExpectedRing(Len(groups))[gi][1]
            /\ clusters[groups[gi].id].y = ExpectedRing(Len(groups))[gi][2]
       /\ clusters = hist.clusters
       /\ \A i \in 1..Len(gens[g].nodes) :
            LET d == gens[g].nodes[i]
            IN IF d.type = "title"
                 THEN /\ ClusterTargetX(clusters, d) = 640
                      /\ ClusterTargetY(clusters, d) = 480
                 ELSE /\ ClusterTargetX(clusters, d) = clusters[d.groupId].x
                      /\ ClusterTargetY(clusters, d) = clusters[d.groupId].y

\* C8 witness: three groups, one without albums, after two filter changes.
C8_Witness ==
  /\ groups = CatalogEmptyGroup
  /\ Len(gens) > 2
  /\ filter = "artist"

----------------------------------------------------------------------------
\* Properties of the running collage (Spec, SpecHover).

NonTitle(g) == {i \in 1..Len(gens[g].nodes) : gens[g].nodes[i].type # "title"}

BaseSize(d) == IF d.type = "album" THEN SizeAlbum ELSE SizeArtist

\* C2: the live node list holds exactly one title node; it is pinned at the
\* canvas center (640, 480), sits there, has radius 200, larger than every
\* other node's radius; no other node is pinned.
C2_TitlePinned ==
  /\ Cardinality({i \in 1..Len(LiveNodes) : LiveNodes[i].type = "title"}) = 1
  /\ \A i \in 1..Len(LiveNodes) :
       LET d == LiveNodes[i]
       IN IF d.type = "title"
            THEN /\ Has(d, "fx") /\ Has(d, "fy")
                 /\ d.fx = 640 /\ d.fy = 480
                 /\ d.x = 640 /\ d.y = 480
                 /\ d.r = 200
                 /\ \A j \in NonTitle(Live) : LiveNodes[j].r < d.r
            ELSE ~Has(d, "fx") /\ ~Has(d, "fy")

\* C2 witness: after a filter change, the new simulation has ticked and a
\* hover animation has moved a live radius.
C2_Witness ==
  /\ Len(gens) > 1
  /\ gens[Live].ticks > 0
  /\ \E i \in NonTitle(Live) : LiveNodes[i].r # hist.assigned[Live][i]

\* The transition scheduled last on node n of generation g.
LastTransition(g, n) ==
  LET on == {i \in 1..Len(timers) :
               timers[i].kind = "tween" /\ timers[i].g = g /\ timers[i].n = n}
  IN timers[CHOOSE i \in on : \A j \in on : j <= i]

\* C3 (as claimed): after a pointer-enter immediately followed by a
\* pointer-leave, originalR equals the radius the node had before the enter,
\* and that is the leave animation's target.
C3_AsClaimed ==
  hist.last.seq = "enter-leave" =>
    LET d == gens[hist.last.g].nodes[hist.last.n]
    IN /\ d.originalR = hist.last.r
       /\ LastTransition(hist.last.g, hist.last.n).to = hist.last.r

\* C3 (amended): after a pointer-enter immediately followed by a
\* pointer-leave, originalR is the resting radius recorded before the enter
\* or, if none was recorded, the radius the node had before the enter; the
\* leave animation starts at the node's radius and targets that originalR.
C3_RoundTrip ==
  hist.last.seq = "enter-leave" =>
    LET d == gens[hist.last.g].nodes[hist.last.n]
        t == LastTransition(hist.last.g, hist.last.n)
    IN /\ d.originalR = (IF hist.last.orig # 0 THEN hist.last.orig ELSE hist.last.r)
       /\ d.r = hist.last.r
       /\ t.from = d.r
       /\ t.to = d.originalR

\* C3 witness: a round trip on a node hovered before and still in transition.
C3_Witness ==
  /\ hist.last.seq = "enter-leave"
  /\ hist.last.orig # 0
  /\ hist.last.r # hist.last.orig

\* C4 (as claimed): a recorded originalR is the radius given at construction.
C4_RestingIsAssigned ==
  \A g \in 1..Len(gens) : \A i \in NonTitle(g) :
    Has(gens[g].nodes[i], "originalR") =>
      gens[g].nodes[i].originalR = hist.assigned[g][i]

\* C5: a node's radius stays between the least and the greatest of its
\* construction radius, the hover size and the base size of its type.
C5_RadiusBounded ==
  \A g \in 1..Len(gens) : \A i \in NonTitle(g) :
    LET d == gens[g].nodes[i]
        a == hist.assigned[g][i]
    IN /\ Min2(a, Min2(SizeHover, BaseSize(d))) <= d.r
       /\ d.r <= Max2(a, Max2(SizeHover, BaseSize(d)))

\* C5 witness: after four pointer events, a radius in mid-transition.
C5_Witness ==
  /\ nEvents >= 4
  /\ \E i \in NonTitle(Live) :
       /\ LiveNodes[i].r # hist.assigned[Live][i]
       /\ LiveNodes[i].r # SizeHover
       /\ LiveNodes[i].r # BaseSize(LiveNodes[i])

\* Where forceSimulation puts the i-th node of a new node list.
ExpectedStart(i) ==
  CASE i = 1 -> <<640, 480>> [] i = 2 -> <<-9, 8>> [] i = 3 -> <<1, -16>>
    [] i = 4 -> <<11, 15>> [] i = 5 -> <<-21, -4>> [] i = 6 -> <<20, -13>>

\* C9: a filter change yields nodes at the engine's initial position for
\* their index, at rest, without a recorded resting radius and with a
\* construction radius, whatever the replaced nodes held.
C9_FreshNodes ==
  [][Len(gens') > Len(gens) =>
       LET sim == gens'[Len(gens')]
       IN /\ sim.ticks = 0
          /\ sim.alpha = 1000
          /\ \A i \in 1..Len(sim.nodes) :
               LET d == sim.nodes[i]
               IN /\ d.x = ExpectedStart(i)[1]
                  /\ d.y = ExpectedStart(i)[2]
                  /\ d.vx = 0 /\ d.vy = 0
                  /\ ~Has(d, "originalR")
                  /\ d.type # "title" =>
                       /\ BaseSize(d) - MaxDelta <= d.r
                       /\ d.r < BaseSize(d) + MaxDelta
                  /\ sim.radii[i] = d.r + HolePadding]_vars

\* C9 witness: right after a filter change that replaced a node set which had
\* ticked and recorded a resting radius, with a node id common to both.
C9_Witness ==
  /\ Len(gens) = 2
  /\ gens[2].ticks = 0
  /\ gens[1].ticks > 0
  /\ \E i \in NonTitle(1) : \E j \in NonTitle(2) :
       /\ gens[1].nodes[i].id = gens[2].nodes[j].id
       /\ Has(gens[1].nodes[i], "originalR")
       /\ gens[1].nodes[i].r # hist.assigned[1][i]
       /\ gens[1].nodes[i].x # ExpectedStart(j)[1]

Motion(sim) ==
  [i \in 1..Len(sim.nodes) |->
     <<sim.nodes[i].x, sim.nodes[i].y, sim.nodes[i].vx, sim.nodes[i].vy>>]

\* C10: a simulation whose node set was replaced or torn down is stopped and
\* stays so: no later step ticks it or changes a position or velocity of its
\* nodes.
C10_DisposedNeverSteps ==
  [][\A g \in 1..Len(gens) :
       Disposed(g) =>
         /\ ~gens[g].running
         /\ ~gens'[g].running
         /\ gens'[g].ticks = gens[g].ticks
         /\ Motion(gens'[g]) = Motion(gens[g])
         /\ \A i \in 1..Len(timers') : timers'[i] # SimTimer(g)]_vars

\* C10 witness: an animation frame has written to a replaced node set while
\* the new simulation ticks.
C10_Witness ==
  /\ hist.staleWrites
  /\ Len(gens) > 1
  /\ gens[Live].ticks > 0
  /\ mounted

\* The groups without an album.
EmptyGroups == {gi \in 1..Len(groups) : Len(groups[gi].albums) = 0}

\* C14: a group without albums contributes no node under any filter, the
\* build throws nothing, and the simulation is started over the nodes of the
\* other groups: running, alpha 1, every node placed, its timer set.
C14_EmptyGroup ==
  /\ \A gi \in EmptyGroups : \A i \in 1..Len(LiveNodes) :
       LiveNodes[i].group # groups[gi].id
  /\ \A i \in 1..Len(LiveNodes) : LiveNodes[i].src # TypeError
  /\ Len(LiveNodes) =
       1 + (IF AlbumsShown(filter) THEN TotalAlbums(Len(groups)) ELSE 0)
         + (IF filter # "album" THEN Cardinality(GroupsWithAlbums) ELSE 0)
  /\ gens[Live].running
  /\ gens[Live].alpha = 1000
  /\ \A i \in 1..Len(LiveNodes) :
       /\ Has(LiveNodes[i], "x") /\ Has(LiveNodes[i], "y")
       /\ gens[Live].radii[i] = LiveNodes[i].r + HolePadding
  /\ \E j \in 1..Len(timers) : timers[j] = SimTimer(Live)

\* C14 witness: a catalog with a group without albums between two that have
\* one, rebuilt under the filter "artist".
C14_Witness ==
  /\ groups = CatalogEmptyGroup
  /\ filter = "artist"
  /\ Len(gens) > 1
  /\ Len(LiveNodes) = 3

----------------------------------------------------------------------------
\* Properties of the effect's guard (SpecMount).

\* C15: while the <svg> is absent (the node list is never empty: it holds the
\* title) no simulation exists, no timer is set, no frame ticks and no
\* handler runs; once it is there, the next run of the effect starts a
\* simulation as a first run does: running, its timer set, and until its
\* first tick alpha 1 and every node where the engine first puts it.
C15_NoStartWithoutInput ==
  /\ ~svg => Len(gens) = 0
  /\ Len(gens) = 0 =>
       /\ timers = <<>>
       /\ nFrames = 0
       /\ nEvents = 0
  /\ Len(gens) > 0 =>
       /\ Len(LiveNodes) > 0
       /\ gens[Live].running
       /\ \E j \in 1..Len(timers) : timers[j] = SimTimer(Live)
       /\ gens[Live].ticks = 0 =>
            /\ gens[Live].alpha = 1000
            /\ gens[Live] = [NewSimulation(groups, LiveNodes) EXCEPT !.nodes = LiveNodes]

\* C15 witness: mounted without <svg>, a filter change that built nothing,
\* then the <svg>, a filter change, and the simulation ticks.
C15_Witness ==
  /\ Len(gens) = 1
  /\ gens[1].ticks > 0
  /\ filter = "tous"
  /\ nEvents > 0

----------------------------------------------------------------------------
\* Properties of a discarded node set.

\* C11: once a node set is replaced or torn down, its in-flight animations
\* are cancelled: with every pointer event delivered in order (none stray),
\* no later step writes the radius of one of its nodes or re-creates its
\* collision force.
C11_RebuildCancels ==
  [][hist'.stray = 0 =>
       \A g \in 1..Len(gens) :
         Disposed(g) =>
           /\ Radii(gens'[g]) = Radii(gens[g])
           /\ gens'[g].radii = gens[g].radii]_vars

----------------------------------------------------------------------------
\* Properties of the drawing (SpecRender).

\* What the last tick callback of generation g left.
AtTick(g) == gens[g].atTick[1]

\* C12: right after every tick callback, every node's <g> is placed at the
\* node's position, its outer circle has the node's radius, its image box is
\* centered with half-size r - clipPadding, every clip circle with the
\* node's id has radius r - clipPadding, and an album's hole has radius
\* holePadding.
C12_RenderSync ==
  \A g \in 1..Len(gens) :
    gens[g].atTick # <<>> =>
      \A i \in 1..Len(AtTick(g).nodes) :
        LET d == AtTick(g).nodes[i]
            el == AtTick(g).nodeGroup[i]
            defs == AtTick(g).defs
        IN /\ el.transform = <<d.x, d.y>>
           /\ \A c \in 1..Len(el.circles) :
                /\ el.circles[c].class # "hole" => el.circles[c].r = d.r
                /\ el.circles[c].class = "hole" => el.circles[c].r = HolePadding
           /\ d.type = "album" => \E c \in 1..Len(el.circles) : el.circles[c].class = "hole"
           /\ \A c \in 1..Len(el.image) :
                /\ el.image[c].x = -(d.r - ClipPadding)
                /\ el.image[c].y = -(d.r - ClipPadding)
                /\ el.image[c].width = 2 * (d.r - ClipPadding)
                /\ el.image[c].height = 2 * (d.r - ClipPadding)
           /\ \E c \in 1..Len(defs) : defs[c].id = ClipId(d)
           /\ \A c \in 1..Len(defs) :
                defs[c].id = ClipId(d) => defs[c].r = d.r - ClipPadding

\* The elements of a simulation.
Drawn(sim) == [nodeGroup |-> sim.nodeGroup, defs |-> sim.defs]

\* C13: the tick callback run twice on the same nodes leaves the elements
\* it leaves when run once, and it changes no node, nor the simulation.
C13_Idempotent ==
  \A g \in 1..Len(gens) :
    LET sim == gens[g]
        once == TickHandler(sim)
        twice == TickHandler(once)
    IN /\ Drawn(twice) = Drawn(once)
       /\ once.nodes = sim.nodes
       /\ twice.nodes = sim.nodes
       /\ [once EXCEPT !.nodeGroup = sim.nodeGroup, !.defs = sim.defs,
                       !.atTick = sim.atTick] = sim

\* C13 witness: a simulation that has ticked, a node of which has changed
\* radius since, so that the callback has elements to rewrite.
C13_Witness ==
  \E g \in 1..Len(gens) :
    /\ gens[g].ticks > 1
    /\ \E i \in NonTitle(g) : AtTick(g).nodes[i].r # gens[g].nodes[i].r
    /\ Drawn(TickHandler(gens[g])) # Drawn(gens[g])

\* The entrances of generation g that are still scheduled or running.
EntrancesOf(g) ==
  {j \in 1..Len(timers) : timers[j].kind = "entrance" /\ timers[j].g = g}

\* C16: while entrances of a node set are scheduled or running, the
\* collision force holds, and the last tick used, every node's own radius
\* plus the padding, whatever its elements show; and a frame of an entrance
\* changes elements only: no node, no collision radius, nothing else of the
\* simulation.
C16_EntranceNoGate ==
  \A g \in 1..Len(gens) :
    EntrancesOf(g) # {} =>
      /\ \A i \in 1..Len(gens[g].nodes) :
           gens[g].radii[i] = gens[g].nodes[i].r + HolePadding
      /\ gens[g].atTick # <<>> =>
           \A i \in 1..Len(AtTick(g).nodes) :
             AtTick(g).radii[i] = AtTick(g).nodes[i].r + HolePadding
      /\ \A j \in EntrancesOf(g) :
           LET out == EntranceFrame(gens[g], timers[j])
           IN [out.sim EXCEPT !.nodeGroup = gens[g].nodeGroup,
                              !.defs = gens[g].defs] = gens[g]

\* C16 witness: a simulation has ticked while an entrance of a node was
\* still scheduled; the entrance is now running toward a size the node no
\* longer has, and the node's clip circle shows neither.
C16_Witness ==
  \E j \in EntrancesOf(Live) :
    LET t == timers[j]
        d == gens[Live].nodes[t.n]
    IN /\ gens[Live].ticks > 1
       /\ t.clip.st = "running"
       /\ t.clip.tw[1].from # t.clip.tw[1].to
       /\ gens[Live].defs[ClipTarget(gens[Live].defs, d)].r # d.r - ClipPadding

----------------------------------------------------------------------------
\* Properties of the click handler (SpecRender).

\* The node's groupId is a group of the catalog and its albumId an album of
\* that group.
Catalogued(d) ==
  \E gi \in 1..Len(groups) :
    /\ d.groupId = groups[gi].id
    /\ d.type = "album" =>
         \E a \in 1..Len(groups[gi].albums) : d.albumId = NumStr(groups[gi].albums[a].id)

\* C17: a click on an album node requests '/artist/<groupId>?album=<albumId>'
\* of a group and an album of the catalog, a click on an artist node
\* '/artist/<groupId>', a click on the title requests nothing; a click
\* changes no node, simulation, timer or hover state, and only a click
\* requests a path.
C17_ClickNavigation ==
  [][/\ route' # route => hist'.last.seq = "click" /\ nEvents' = nEvents + 1
     /\ (hist'.last.seq = "click" /\ nEvents' = nEvents + 1) =>
          LET d == gens[hist'.last.g].nodes[hist'.last.n]
          IN /\ d.type = "album" =>
                  /\ route' = <<"/artist/", d.groupId, "?album=", d.albumId>>
                  /\ Catalogued(d)
             /\ d.type = "artist" =>
                  /\ route' = <<"/artist/", d.groupId>>
                  /\ Catalogued(d)
             /\ d.type = "title" => route' = route
             /\ gens' = gens
             /\ timers' = timers
             /\ hovered' = hovered
             /\ filter' = filter]_vars

\* C17 witness: a click on an album node of a simulation that has ticked has
\* requested the album's path.
C17_Witness ==
  /\ hist.last.seq = "click"
  /\ gens[Live].nodes[hist.last.n].type = "album"
  /\ Len(route) = 4
  /\ gens[Live].ticks > 0

----------------------------------------------------------------------------
\* Properties of the radius under hover (SpecHover).

\* C19: at every tick, the radius the collision force applied to a node is
\* the radius the node had at that tick plus holePadding, whatever hover and
\* leave frames ran since the tick before.
C19_CollisionCurrent ==
  \A g \in 1..Len(gens) :
    gens[g].atTick # <<>> =>
      \A i \in 1..Len(AtTick(g).nodes) :
        AtTick(g).radii[i] = AtTick(g).nodes[i].r + HolePadding

\* C19 witness: the last tick ran on a node whose radius a hover frame had
\* changed since the tick before, to a value other than the one it was built
\* with.
C19_Witness ==
  /\ gens[Live].ticks > 2
  /\ \E i \in NonTitle(Live) :
       /\ AtTick(Live).nodes[i].r # hist.assigned[Live][i]
       /\ AtTick(Live).nodes[i].r # SizeHover
       /\ AtTick(Live).radii[i] # hist.assigned[Live][i] + HolePadding

\* The transitions of node n of generation g that have not ended.
TweensOf(g, n) ==
  {j \in 1..Len(timers) :
     timers[j].kind = "tween" /\ timers[j].g = g /\ timers[j].n = n}

\* C20: once its hover or leave animation has ended with no further pointer
\* event on it, a node of the live set under the pointer has exactly the
\* hover size (70) as its radius, and a node the pointer has left has the
\* radius it was built with.
C20_EndValues ==
  (Live > 0 /\ ~Disposed(Live)) =>
    \A n \in 1..Len(gens[Live].nodes) :
      (gens[Live].nodes[n].type # "title" /\ TweensOf(Live, n) = {}) =>
        gens[Live].nodes[n].r =
          IF hovered = n THEN SizeHover ELSE hist.assigned[Live][n]

\* The newest transition of node n of generation g (TweensOf(g, n) # {}).
NewestTween(g, n) ==
  timers[CHOOSE j \in TweensOf(g, n) : \A i \in TweensOf(g, n) : i <= j]

\* C21: a hover or leave animation that starts while an earlier one of the
\* same node is in flight continues from the radius the node holds: the
\* frame in which it starts leaves the radius as it was when the event
\* arrived, and every frame moves the radius from where it is towards the
\* target of the node's newest animation, never back.
C21_ContinuesFromLive ==
  [][nFrames' # nFrames =>
       \A g \in 1..Len(gens) : \A n \in 1..Len(gens[g].nodes) :
         LET r == gens[g].nodes[n].r
             r2 == gens'[g].nodes[n].r
         IN IF TweensOf(g, n) = {} THEN r2 = r
            ELSE /\ NewestTween(g, n).k = -1 => r2 = r
                 /\ Min2(r, NewestTween(g, n).to) <= r2
                 /\ r2 <= Max2(r, NewestTween(g, n).to)]_vars

\* An animation that started from a radius in mid-transition has written.
C21_Witness ==
  \E n \in 1..Len(gens[Live].nodes) :
    /\ TweensOf(Live, n) # {}
    /\ NewestTween(Live, n).k >= 1
    /\ NewestTween(Live, n).from # hist.assigned[Live][n]
    /\ NewestTween(Live, n).from # SizeHover
    /\ NewestTween(Live, n).from # BaseSize(gens[Live].nodes[n])
    /\ gens[Live].nodes[n].r # NewestTween(Live, n).from

\* C23: a frame of a hover or leave animation on a live node set writes the
\* interpolated radius onto the node, then reassigns the collision force
\* (whose radii are those of the nodes after the write), then checks alpha:
\* after the frame alpha is at least the restart threshold (0.1) and the
\* stepper is running.
C23_HoverFrame ==
  [][nFrames' # nFrames =>
       \A g \in 1..Len(gens) :
         (~Disposed(g) /\ \E n \in 1..Len(gens[g].nodes) : TweensOf(g, n) # {}) =>
           /\ \A n \in 1..Len(gens[g].nodes) :
                TweensOf(g, n) # {} =>
                  gens'[g].nodes[n].r =
                    Interpolate(NewestTween(g, n).from, NewestTween(g, n).to,
                      IF NewestTween(g, n).k + 1 >= FramesPerTween THEN 1000
                      ELSE EaseCircle(NewestTween(g, n).k + 1, FramesPerTween))
           /\ gens'[g].radii = CollideRadii(gens'[g].nodes)
           /\ gens'[g].alpha >= RestartAlphaPm
           /\ gens'[g].running]_vars

\* A frame of a hover animation has changed a radius of the live node set,
\* and the collision force holds it.
C23_Witness ==
  /\ ~Disposed(Live)
  /\ hist.last.seq = "none"
  /\ \E n \in 1..Len(gens[Live].nodes) :
       /\ TweensOf(Live, n) # {}
       /\ NewestTween(Live, n).k = 1
       /\ NewestTween(Live, n).to = SizeHover
       /\ gens[Live].nodes[n].r # NewestTween(Live, n).from
       /\ gens[Live].radii[n] = gens[Live].nodes[n].r + HolePadding
       /\ gens[Live].alpha >= RestartAlphaPm
       /\ gens[Live].running

\* The fields of a node other than those of the set fs are the same in d
\* and d2.
SameBut(d, d2, fs) ==
  /\ DOMAIN d2 \ fs = DOMAIN d \ fs
  /\ \A f \in DOMAIN d \ fs : d2[f] = d[f]

Kinematics == {"x", "y", "vx", "vy"}

\* C24: a simulation tick changes only positions and velocities; a pointer
\* event changes at most the radius and the resting radius of the node it
\* targets; a frame changes the radius of the nodes under a hover or leave
\* animation only, and leaves positions and velocities as the tick put them;
\* Render Sync and the entrance animation change no node field.
C24_SingleWriter ==
  [][\A g \in 1..Len(gens) : \A n \in 1..Len(gens[g].nodes) :
       LET d == gens[g].nodes[n]
           d2 == gens'[g].nodes[n]
           ticked == SimulationTick(gens[g]).nodes[n]
       IN /\ SameBut(d, ticked, Kinematics)
          /\ TickHandler(gens[g]).nodes = gens[g].nodes
          /\ \A j \in EntrancesOf(g) :
               EntranceFrame(gens[g], timers[j]).sim.nodes = gens[g].nodes
          /\ nEvents' # nEvents =>
               \/ d2 = d
               \/ /\ hist'.last.seq = "enter"
                  /\ hist'.last.g = g /\ hist'.last.n = n
                  /\ SameBut(d, d2, {"r", "originalR"})
          /\ nFrames' # nFrames =>
               /\ SameBut(d, d2, Kinematics \cup {"r"})
               /\ TweensOf(g, n) = {} => d2.r = d.r
               /\ \A f \in Kinematics \cap DOMAIN d :
                    d2[f] = IF \E j \in 1..Len(timers) : timers[j] = SimTimer(g)
                              THEN ticked[f] ELSE d[f]]_vars

\* A frame has moved the nodes while a hover animation was changing the
\* radius of one of them, after the pointer entered it for the first time.
C24_Witness ==
  /\ ~Disposed(Live)
  /\ gens[Live].ticks >= 3
  /\ \E n \in 1..Len(gens[Live].nodes) :
       /\ Has(gens[Live].nodes[n], "originalR")
       /\ TweensOf(Live, n) # {}
       /\ NewestTween(Live, n).k >= 1
       /\ gens[Live].nodes[n].r # gens[Live].nodes[n].originalR
       /\ \E m \in 1..Len(gens[Live].nodes) :
            /\ m # n
            /\ gens[Live].nodes[m].r = hist.assigned[Live][m]
            /\ gens[Live].nodes[m].vx # 0

\* C25: hovering never shrinks a node: with every pointer event in order,
\* the hover target of the node under the pointer is at least the radius it
\* was built with, and so is its radius while the pointer is on it.
C25_HoverNeverShrinks ==
  (hist.stray = 0 /\ ~Disposed(Live) /\ hovered # 0) =>
    /\ HoverTarget(gens[Live].nodes[hovered]) >= hist.assigned[Live][hovered]
    /\ gens[Live].nodes[hovered].r >= hist.assigned[Live][hovered]

----------------------------------------------------------------------------
\* Properties of a node set left to run (SpecSettle).

\* C22: while a node set is alive its alpha never goes under the target
\* alpha (0.3) nor under the stop threshold, it never increases on a frame,
\* the stepper stays running with its timer set, and every frame ticks the
\* simulation once more.
C22_NeverSettles ==
  [][\A g \in 1..Len(gens) :
       ~Disposed(g)' =>
         /\ gens'[g].alpha >= AlphaTargetPm
         /\ gens'[g].alpha >= AlphaMinPm
         /\ gens'[g].running
         /\ \E j \in 1..Len(timers') : timers'[j] = SimTimer(g)
         /\ nFrames' # nFrames =>
              /\ gens'[g].ticks = gens[g].ticks + 1
              /\ gens'[g].alpha <= gens[g].alpha]_vars

\* Alpha has stopped decreasing, and hover frames have run since.
C22_Witness ==
  /\ ~Disposed(Live)
  /\ gens[Live].alpha = AlphaStep(gens[Live].alpha)
  /\ gens[Live].alpha < AlphaTargetPm + 50
  /\ \E n \in 1..Len(gens[Live].nodes) :
       /\ TweensOf(Live, n) # {}
       /\ NewestTween(Live, n).k >= 1

----------------------------------------------------------------------------
\* Properties of the search bar (SpecSearch).

\* C26: after any sequence of query changes and ArrowUp / ArrowDown presses,
\* selectedIndex is -1 or an index into the current search results
\* (0 <= selectedIndex < results.length), the empty result list included, so
\* that Enter always acts on a result that exists.
C26_SelectionInRange ==
  /\ \/ search.selectedIndex = -1
     \/ 0 <= search.selectedIndex /\ search.selectedIndex < Len(SearchResults(groups, search.query))
  /\ ~search.fault

----------------------------------------------------------------------------
\* Properties of the full-screen slideshow (SpecSlideshow).

\* C27: after any sequence of next / previous / dot-click requests and
\* 300 ms timers, currentSlide is a valid index (0 <= currentSlide < number
\* of items); once every pending timer has fired the content is visible and
\* currentSlide is the index the most recent request asked for.
C27_Slideshow ==
  /\ 0 <= slideshow.currentSlide /\ slideshow.currentSlide < slideshow.items
  /\ slideshow.pending = <<>> =>
       /\ slideshow.isVisible
       /\ slideshow.asked # NoSlide => slideshow.currentSlide = slideshow.asked

\* The part of C27 that every run keeps.
C27_ValidAndVisible ==
  /\ 0 <= slideshow.currentSlide /\ slideshow.currentSlide < slideshow.items
  /\ slideshow.pending = <<>> => slideshow.isVisible

----------------------------------------------------------------------------
\* Properties of the album carousel (SpecCarousel, SpecCarouselFair).

\* The step is a request of this kind that the carousel accepts.
Accepted(kind) == carousel'.last = kind /\ ~carousel.isTransitioning

\* An accepted next (the button or the auto-scroll) goes from maxIndex to 0
\* and otherwise adds 1, an accepted previous goes from 0 to maxIndex and
\* otherwise subtracts 1.
NextAndPrevious ==
  /\ (Accepted("next") \/ Accepted("auto")) =>
       carousel'.currentIndex =
         (IF carousel.currentIndex = MaxIndex(carousel) THEN 0
          ELSE carousel.currentIndex + 1)
  /\ Accepted("prev") =>
       carousel'.currentIndex =
         (IF carousel.currentIndex = 0 THEN MaxIndex(carousel)
          ELSE carousel.currentIndex - 1)

\* C28: with maxIndex = max(0, albums.length - itemsPerView), always
\* 0 <= currentIndex <= maxIndex after any sequence of next, previous and
\* indicator clicks and auto-scroll firings, and every step moves the index
\* as NextAndPrevious says.
C28_Index ==
  /\ [](0 <= carousel.currentIndex /\ carousel.currentIndex <= MaxIndex(carousel))
  /\ [][NextAndPrevious]_vars

\* Previous has wrapped from 0 to a maxIndex above 0.
C28_Witness ==
  /\ carousel.last = "prev"
  /\ carousel.isTransitioning
  /\ MaxIndex(carousel) > 0
  /\ carousel.currentIndex = MaxIndex(carousel)

Requests == {"next", "prev", "indicator", "auto"}

\* While a transition runs no step changes currentIndex; a request that
\* arrives while none runs is accepted and starts one.
LockStep ==
  /\ carousel.isTransitioning => carousel'.currentIndex = carousel.currentIndex
  /\ \A kind \in Requests :
       Accepted(kind) => carousel'.isTransitioning /\ carousel'.timers = 1

\* C29: while isTransitioning is true no next / previous / indicator /
\* auto-scroll request changes currentIndex; every accepted request sets
\* isTransitioning; isTransitioning always returns to false (the 600 ms
\* timer), after which requests are accepted again.
C29_Lock ==
  /\ [][LockStep]_vars
  /\ carousel.isTransitioning ~> ~carousel.isTransitioning

\* A next request arrived during the transition an indicator click had
\* started, and was dropped.
C29_Witness ==
  /\ carousel.isTransitioning
  /\ carousel.last = "next"
  /\ MaxIndex(carousel) > 0
  /\ carousel.currentIndex = 0

----------------------------------------------------------------------------
\* Properties of the album pile (SpecPile).

\* The albums drawn, by index.
PileIndexes == 0..(pile.albumsLength - 1)

EverSelected == Elements(pile.selectionHistory)

\* C30: after any sequence of album clicks, unfocus clicks and random
\* selections at most one album is selected, a selected album is in the
\* selection history and its z-index is strictly above that of every other
\* album, and every album that was ever selected has a z-index strictly
\* above that of every album that never was.
C30_Pile ==
  /\ Cardinality({i \in PileIndexes : IsSelected(pile, i)}) <= 1
  /\ pile.selectedAlbum # NoAlbum =>
       /\ pile.selectedAlbum \in EverSelected
       /\ \A j \in PileIndexes \ {pile.selectedAlbum} :
            GetAlbumZIndex(pile, pile.selectedAlbum) > GetAlbumZIndex(pile, j)
  /\ \A i \in EverSelected : \A j \in PileIndexes \ EverSelected :
       GetAlbumZIndex(pile, i) > GetAlbumZIndex(pile, j)

\* The album selected first is selected again, after another one, and the
\* last album of the pile never was.
C30_Witness ==
  /\ Len(pile.selectionHistory) >= 2
  /\ pile.selectedAlbum = pile.selectionHistory[1]
  /\ (pile.albumsLength - 1) \notin EverSelected

====
